---------------------------- MODULE Spec2Model ----------------------------
(***************************************************************************)
(* Reconciliation core of the inspections lakehouse:                       *)
(*   - etl_001 delta.py / hashing.py : snapshot differ and row signature   *)
(*   - etl_004 pipeline.py           : event collapse, assignment resolver *)
(*   - etl_007 eligibility_rules*.py : eligibility evaluator               *)
(*                                                                         *)
(* Text is modelled as a sequence of one-character strings, so trimming,   *)
(* joining, prefix tests and string comparison are computed on the         *)
(* characters.  A cell of a data frame is a record [k, s]: k = "str" with  *)
(* the text in s, k = "bool", or one of the null markers None / NaN / NA;   *)
(* a number is a record [k, n] with k = "int".                             *)
(***************************************************************************)
EXTENDS Integers, Sequences, FiniteSets, TLC

VARIABLES
    fs,            \* bronze HISTORY tree: set of [dir, df, mtime]
    run_partitions,\* partitions of the run calling compute_key_delta
    delta_pc,      \* "call" before compute_key_delta, then "returned" | "raised"
    delta_ret,     \* what compute_key_delta returned (metrics, prev_dir, frames)
    delta_files,   \* silver <dataset>_delta HISTORY: set of [dir, basename, rows]
    delta_err,     \* the exception raised, or NoError
    hash_in,       \* the pair of frames handed to row_hashes
    hash_pc,       \* "call" | "hashed"
    hash_out,      \* the signatures of both frames
    events_in,     \* the event log handed to _collapse_latest_events
    collapse_pc,   \* "call" | "returned"
    collapse_out,  \* the frame _collapse_latest_events returned
    gold_in,       \* what _build_gold_for_asset_class reads: the silver
                   \* CURRENT frames of DRONE and HELO and the latest events
    gold_pc,       \* "call" | "returned" | "raised"
    gold_out,      \* [all_assign, preferred, out] of the call
    gold_files,    \* gold tree: set of [dir, basename, df]
    elig_in,       \* what the eligibility run reads: rules module, asset
                   \* class, gold assignments, evidence, min_images
    elig_pc,       \* "call" | "returned"
    elig_out,      \* the tables of the last eligibility run
    elig_prev,     \* [min_images, line] of the run before it, or << >>
    keyed_in,      \* [dataset, df_raw]: what _keyed is called with
    keyed_pc,      \* "call" | "returned" | "raised"
    keyed_out,     \* the keyed frame, or << >>
    bronze_current,\* bronze CURRENT of the vendor: the frame stored, or << >>
    runs           \* the runs of etl_001 so far: [partitions, status, prev_dir]

delta_vars == <<fs, run_partitions, delta_pc, delta_ret, delta_files, delta_err>>
hash_vars  == <<hash_in, hash_pc, hash_out>>
collapse_vars == <<events_in, collapse_pc, collapse_out>>
gold_vars == <<gold_in, gold_pc, gold_out, gold_files>>
elig_vars == <<elig_in, elig_pc, elig_out, elig_prev>>
keyed_vars == <<keyed_in, keyed_pc, keyed_out>>
run_vars == <<bronze_current, runs>>
vars == <<delta_vars, hash_vars, collapse_vars, gold_vars, elig_vars, keyed_vars, run_vars>>

----------------------------------------------------------------------------
(* Bounds *)

\* rows in one drawn snapshot
MaxRows == 2

\* distinct keys, each on two rows, of the one large snapshot
ManyKeys == 11

----------------------------------------------------------------------------
(* Characters and text *)

\* The characters used by the model, in Python's code-point order.
Alphabet ==
    << " ", "-", "/", "0", "1", "2", "3", "4", "5", "6", "7", "8", "9", "=",
       "A", "C", "L", "M", "O", "P", "S", "T", "V", "_",
       "a", "b", "d", "n", "r", "|" >>

CodePoint(c) == CHOOSE i \in 1..Len(Alphabet) : Alphabet[i] = c

Min(a, b) == IF a <= b THEN a ELSE b

\* Python's < on str: lexicographic by code point, a proper prefix is smaller.
StrLess(a, b) ==
    \E i \in 1..(Min(Len(a), Len(b)) + 1) :
        /\ \A j \in 1..(i - 1) : a[j] = b[j]
        /\ \/ (i = Len(a) + 1 /\ i <= Len(b))
           \/ (i <= Len(a) /\ i <= Len(b) /\ CodePoint(a[i]) < CodePoint(b[i]))

IsPrefix(p, s) == Len(p) <= Len(s) /\ SubSeq(s, 1, Len(p)) = p


\* str.strip(): drop leading and trailing whitespace.
Strip(s) ==
    LET keep == {i \in 1..Len(s) : s[i] # " "}
    IN  IF keep = {} THEN << >>
        ELSE LET lo == CHOOSE i \in keep : \A j \in keep : i <= j
                 hi == CHOOSE i \in keep : \A j \in keep : j <= i
             IN  SubSeq(s, lo, hi)

----------------------------------------------------------------------------
(* Cells *)

Str(s) == [k |-> "str", s |-> s]
None == [k |-> "None", s |-> << >>]
NaN  == [k |-> "NaN", s |-> << >>]
NA   == [k |-> "NA", s |-> << >>]
True == [k |-> "bool", s |-> << "1" >>]
False == [k |-> "bool", s |-> << "0" >>]

isna(v) == v.k \in {"None", "NaN", "NA"}

\* Series.astype("string"): every null marker becomes pd.NA, text is kept.
astype_string(v) == IF isna(v) THEN NA ELSE v

\* Series.str.strip() on a string series.
str_strip(v) == IF isna(v) THEN NA ELSE Str(Strip(v.s))

\* Series.fillna(x)
fillna(v, x) == IF isna(v) THEN x ELSE v

\* Series + Series on the string dtype: NA propagates.
str_add(a, b) == IF isna(a) \/ isna(b) THEN NA ELSE Str(a.s \o b.s)

PIPE == << "|" >>
COMP == << "C", "O", "M", "P" >>

\* Series.replace({"": None, "nan": None, "NaT": None}) on a string series.
replace_blank_markers(v) ==
    IF isna(v) THEN NA
    ELSE IF v.s \in {<< >>, << "n", "a", "n" >>, << "N", "a", "T" >>} THEN NA ELSE v

IsDigit(c) == c \in {"0", "1", "2", "3", "4", "5", "6", "7", "8", "9"}

\* pd.to_datetime(s, errors="coerce") on the texts the model draws: an ISO
\* date (digits and dashes, starting with a digit) is a date, anything else
\* is coerced to NaT.
to_datetime(v) ==
    IF isna(v) THEN NA
    ELSE IF /\ Len(v.s) > 0
            /\ IsDigit(v.s[1])
            /\ \A i \in 1..Len(v.s) : IsDigit(v.s[i]) \/ v.s[i] = "-"
         THEN v
         ELSE NA

----------------------------------------------------------------------------
(* Data frames: [columns |-> sequence of names, rows |-> sequence of rows], *)
(* a row being a function from the column names to cells.                   *)

\* Python's sorted() on the column names the model uses (code-point order:
\* upper case, then "_", then lower case).
ColumnOrder ==
    << "Circuit", "FLOC", "SCOPE_ID", "SCOPE_REMOVAL_DATE",
       "_delta_type", "_floc", "_is_active", "_key", "_removal_dt",
       "_scope_id", "_visit_no" >>

SeqToSet(s) == {s[i] : i \in 1..Len(s)}

sorted_columns(cols) ==
    LET keep(c) == c \in cols IN SelectSeq(ColumnOrder, keep)

\* str.lower() on the column names the model uses.
lower(c) ==
    CASE c = "FLOC" -> "floc"
      [] c = "SCOPE_ID" -> "scope_id"
      [] c = "SCOPE_REMOVAL_DATE" -> "scope_removal_date"
      [] c = "Circuit" -> "circuit"
      [] OTHER -> c

NoCol == "<none>"

\* _first_existing_col: the first candidate some column matches without
\* regard to case; of several such columns the dict keeps the last one.
_first_existing_col(df, candidates) ==
    LET hit(i) == {j \in 1..Len(df.columns) :
                      lower(df.columns[j]) = lower(candidates[i])}
        hits == {i \in 1..Len(candidates) : hit(i) # {}}
    IN  IF hits = {} THEN NoCol
        ELSE LET i == CHOOSE x \in hits : \A y \in hits : x <= y
                 j == CHOOSE x \in hit(i) : \A y \in hit(i) : y <= x
             IN  df.columns[j]

\* df[col] = values (one per row); a new column is appended.
with_column(df, col, values) ==
    [columns |-> IF col \in SeqToSet(df.columns) THEN df.columns
                 ELSE Append(df.columns, col),
     rows |-> [i \in 1..Len(df.rows) |->
                  [c \in (DOMAIN df.rows[i]) \cup {col} |->
                      IF c = col THEN values[i] ELSE df.rows[i][c]]]]

\* df[col] = value, the same in every row
with_constant(df, col, value) ==
    with_column(df, col, [i \in 1..Len(df.rows) |-> value])



----------------------------------------------------------------------------
(* hashing.py *)

RECURSIVE JoinPipe(_)
\* "|".join(parts)
JoinPipe(parts) ==
    IF Len(parts) = 0 THEN << >>
    ELSE IF Len(parts) = 1 THEN parts[1]
    ELSE parts[1] \o PIPE \o JoinPipe(Tail(parts))

\* Mutant: the reindex over sorted(df.columns) is lost, the cells are joined
\* in the frame's own column order.
row_hash_input_unsorted(columns, row) ==
    JoinPipe([i \in 1..Len(columns) |->
                 fillna(astype_string(row[columns[i]]), Str(<< >>)).s])

\* The text row_hashes hashes for one row: the cells in sorted column order,
\* as strings, nulls as "", joined by "|".
row_hash_input(columns, row) ==
    LET cols == sorted_columns(SeqToSet(columns))
    IN  JoinPipe([i \in 1..Len(cols) |->
                     fillna(astype_string(row[cols[i]]), Str(<< >>)).s])

\* hashlib.sha256(x).hexdigest(): the digest is taken to be collision-free,
\* so it is identified by the text it was computed from.
sha256(x) == [sha256_of |-> x]

\* One signature per row, in row order.
row_hashes(df) ==
    [i \in 1..Len(df.rows) |-> sha256(row_hash_input(df.columns, df.rows[i]))]

\* df[cols]: the frame restricted to the columns cols (a sequence).
select_columns(df, cols) ==
    [columns |-> cols,
     rows |-> [i \in 1..Len(df.rows) |->
                  [c \in SeqToSet(cols) |-> df.rows[i][c]]]]

----------------------------------------------------------------------------
(* delta.py: canonicalization *)

FLOC_CANDIDATES == << "FLOC", "FLOC_ID" >>
SCOPE_CANDIDATES == << "SCOPE_ID", "Scope ID" >>
REMOVAL_CANDIDATES_DIST ==
    << "SCOPE_REMOVAL_DATE", "Scope Removal Date", "Date_Removed", "DATE_REMOVED" >>

\* _parse_removal_dt(df, mode="distribution"), for one row.
_parse_removal_dt(df, row) ==
    LET cand == _first_existing_col(df, REMOVAL_CANDIDATES_DIST)
    IN  IF cand = NoCol THEN NA
        ELSE to_datetime(replace_blank_markers(astype_string(row[cand])))

_is_active_from_dt(dt) == isna(dt)

\* _distribution_keyed raises ValueError when FLOC or SCOPE_ID is missing.
distribution_columns_missing(df) ==
    \/ _first_existing_col(df, FLOC_CANDIDATES) = NoCol
    \/ _first_existing_col(df, SCOPE_CANDIDATES) = NoCol

\* The column names of the drawn sheets carry no surrounding blanks, so
\* _strip_cols leaves them as they are.
_distribution_keyed(df) ==
    LET floc_col == _first_existing_col(df, FLOC_CANDIDATES)
        scope_col == _first_existing_col(df, SCOPE_CANDIDATES)
        n == Len(df.rows)
        floc == [i \in 1..n |-> str_strip(astype_string(df.rows[i][floc_col]))]
        scope == [i \in 1..n |->
                     fillna(replace_blank_markers(
                                str_strip(astype_string(df.rows[i][scope_col]))),
                            Str(COMP))]
        removal == [i \in 1..n |-> _parse_removal_dt(df, df.rows[i])]
        active == [i \in 1..n |-> _is_active_from_dt(removal[i])]
        key == [i \in 1..n |-> str_add(str_add(scope[i], Str(PIPE)), floc[i])]
    IN  with_column(
          with_constant(
            with_column(
              with_column(
                with_column(
                  with_column(df, "_floc", floc),
                  "_scope_id", scope),
                "_removal_dt", removal),
              "_is_active", active),
            "_visit_no", NA),
          "_key", key)

\* _SCOPE_PKG_RE on the column names the model uses: the number N of a
\* column "Scope Package #N", 0 for a name the expression does not match.
_SCOPE_PKG_RE(c) ==
    CASE c = "Scope Package #1" -> 1
      [] c = "Scope Package #2" -> 2
      [] c = "Scope Package #3" -> 3
      [] OTHER -> 0

\* _find_scope_package_cols: the package columns, sorted by N.
_find_scope_package_cols(df) ==
    LET hits == {j \in 1..Len(df.columns) : _SCOPE_PKG_RE(df.columns[j]) > 0}
        before(i, j) ==
            \/ _SCOPE_PKG_RE(df.columns[i]) < _SCOPE_PKG_RE(df.columns[j])
            \/ (_SCOPE_PKG_RE(df.columns[i]) = _SCOPE_PKG_RE(df.columns[j]) /\ i < j)
    IN  [p \in 1..Cardinality(hits) |->
            df.columns[CHOOSE j \in hits : Cardinality({i \in hits : before(i, j)}) = p - 1]]

REMOVAL_CANDIDATES_TRANS ==
    << "Date_Removed", "DATE_REMOVED", "SCOPE_REMOVAL_DATE", "Scope Removal Date" >>

\* _transmission_keyed raises ValueError when FLOC is missing, or when there
\* is neither a package column nor SCOPE_ID.
transmission_columns_missing(df) ==
    \/ _first_existing_col(df, FLOC_CANDIDATES) = NoCol
    \/ /\ _find_scope_package_cols(df) = << >>
       /\ _first_existing_col(df, SCOPE_CANDIDATES) = NoCol

\* _transmission_keyed: with package columns the sheet is melted, one row per
\* (row, package column), the rows of the first package column first; the
\* rows whose package is null or blank once trimmed are dropped.  Without
\* package columns SCOPE_ID is used, and the blank rows are dropped as well.
_transmission_keyed(df) ==
    LET floc_col == _first_existing_col(df, FLOC_CANDIDATES)
        pkg_cols == _find_scope_package_cols(df)
        scope_col == _first_existing_col(df, SCOPE_CANDIDATES)
        n == Len(df.rows)
        removal_col == _first_existing_col(df, REMOVAL_CANDIDATES_TRANS)
        removal(r) == IF removal_col = NoCol THEN NA
                      ELSE to_datetime(replace_blank_markers(astype_string(r[removal_col])))
        filled(v) == ~isna(v) /\ v # Str(<< >>)
        not_pkg(c) == _SCOPE_PKG_RE(c) = 0
        id_cols == SelectSeq(df.columns, not_pkg)
        melted == [q \in 1..(Len(pkg_cols) * n) |->
                      LET p == ((q - 1) \div n) + 1
                          r == df.rows[((q - 1) % n) + 1]
                          scope == str_strip(astype_string(r[pkg_cols[p]]))
                          floc == str_strip(astype_string(r[floc_col]))
                      IN  [c \in SeqToSet(id_cols)
                                 \cup {"_scope_package_slot", "_scope_id", "_visit_no",
                                       "_floc", "_removal_dt", "_is_active", "_key"} |->
                              CASE c = "_scope_package_slot" -> Str(<< pkg_cols[p] >>)
                                [] c = "_scope_id" -> scope
                                [] c = "_visit_no" -> [k |-> "int", n |-> _SCOPE_PKG_RE(pkg_cols[p])]
                                [] c = "_floc" -> floc
                                [] c = "_removal_dt" -> removal(r)
                                [] c = "_is_active" -> _is_active_from_dt(removal(r))
                                [] c = "_key" -> str_add(str_add(scope, Str(PIPE)), floc)
                                [] OTHER -> r[c]]]
        has_scope(r) == filled(r["_scope_id"])
        fallback == [i \in 1..n |->
                        LET r == df.rows[i]
                            scope == str_strip(astype_string(r[scope_col]))
                            floc == str_strip(astype_string(r[floc_col]))
                        IN  [c \in SeqToSet(df.columns)
                                   \cup {"_floc", "_scope_id", "_removal_dt", "_is_active",
                                         "_visit_no", "_key"} |->
                                CASE c = "_floc" -> floc
                                  [] c = "_scope_id" -> scope
                                  [] c = "_removal_dt" -> removal(r)
                                  [] c = "_is_active" -> _is_active_from_dt(removal(r))
                                  [] c = "_visit_no" -> NA
                                  [] c = "_key" -> str_add(str_add(scope, Str(PIPE)), floc)
                                  [] OTHER -> r[c]]]
    IN  IF pkg_cols # << >>
        THEN [columns |-> id_cols \o << "_scope_package_slot", "_scope_id", "_visit_no",
                                         "_floc", "_removal_dt", "_is_active", "_key" >>,
              rows |-> SelectSeq(melted, has_scope)]
        ELSE [columns |-> df.columns \o << "_floc", "_scope_id", "_removal_dt",
                                           "_is_active", "_visit_no", "_key" >>,
              rows |-> SelectSeq(fallback, has_scope)]

\* _keyed: the mode is transmission when the dataset name says so.
_keyed(df_raw, dataset) ==
    IF dataset = "scope_release_transmission"
    THEN _transmission_keyed(df_raw)
    ELSE _distribution_keyed(df_raw)

\* Keys of a keyed frame, and how many rows carry a key.
KeySet(df) == {df.rows[i]["_key"] : i \in 1..Len(df.rows)}
KeyCount(df, k) == Cardinality({i \in 1..Len(df.rows) : df.rows[i]["_key"] = k})

\* df["_key"].duplicated().any(): a null key repeated counts as a duplicate.
has_duplicate_keys(df) == \E k \in KeySet(df) : KeyCount(df, k) > 1

\* head(10) of the value counts
SampleCap == 10

\* Mutant: no head(10), every repeated key is reported.
duplicate_samples_uncapped(df) ==
    {{k \in KeySet(df) : KeyCount(df, k) > 1 /\ ~isna(k)}}

\* The samples _ensure_unique_keys may report: value_counts() drops the null
\* key, orders by count (ties in no guaranteed order) and head(10) cuts.
duplicate_samples(df) ==
    LET dups == {k \in KeySet(df) : KeyCount(df, k) > 1 /\ ~isna(k)}
        n == Min(SampleCap, Cardinality(dups))
    IN  {S \in SUBSET dups :
            /\ Cardinality(S) = n
            /\ \A a \in S : \A b \in dups \ S : KeyCount(df, a) >= KeyCount(df, b)}

----------------------------------------------------------------------------
(* delta.py: compute_key_delta, the comparison of two keyed frames *)

IGNORE_COLS ==
    {"_key", "_is_active", "_removal_dt", "_scope_id", "_floc", "_visit_no",
     "_scope_package_slot"}

\* df[df["_key"].isin(keys)]
rows_with_key_in(df, keys) ==
    LET keep(r) == r["_key"] \in keys
    IN  [columns |-> df.columns, rows |-> SelectSeq(df.rows, keep)]

\* pd.concat([a, b], ignore_index=True): the columns of a, then b's own;
\* a cell a frame has no column for is NaN.
concat(a, b) ==
    LET extra(c) == c \notin SeqToSet(a.columns)
        cols == a.columns \o SelectSeq(b.columns, extra)
        widen(r) == [c \in SeqToSet(cols) |-> IF c \in DOMAIN r THEN r[c] ELSE NaN]
    IN  [columns |-> cols,
         rows |-> [i \in 1..(Len(a.rows) + Len(b.rows)) |->
                      IF i <= Len(a.rows) THEN widen(a.rows[i])
                      ELSE widen(b.rows[i - Len(a.rows)])]]

\* dict(zip(df["_key"], df["_is_active"]))[k]: the last row of a key wins.
active_of(df, k) ==
    LET idx == {i \in 1..Len(df.rows) : df.rows[i]["_key"] = k}
        last == CHOOSE i \in idx : \A j \in idx : j <= i
    IN  df.rows[last]["_is_active"]

\* compare_cols: the sorted common columns outside ignore_cols.
compare_cols(cur, prev) ==
    LET common == SeqToSet(cur.columns) \cap SeqToSet(prev.columns)
    IN  sorted_columns(common \ IGNORE_COLS)

\* Mutant: the signature comparison runs over every common key, active or not.
updated_keys_of_any_activity(cur, prev) ==
    LET both == KeySet(cur) \cap KeySet(prev)
        cc == compare_cols(cur, prev)
        c == rows_with_key_in(cur, both)
        p == rows_with_key_in(prev, both)
        c_sig == row_hashes(select_columns(c, cc))
        p_sig == row_hashes(select_columns(p, cc))
    IN  IF Len(cc) = 0 \/ both = {} THEN {}
        ELSE {c.rows[i]["_key"] : i \in
                {x \in 1..Len(c.rows) :
                    \E y \in 1..Len(p.rows) :
                        /\ p.rows[y]["_key"] = c.rows[x]["_key"]
                        /\ c_sig[x] # p_sig[y]}}

\* UPDATED: active in both and the signatures over compare_cols differ
\* (inner merge of the two signature tables on _key).
updated_keys_of(cur, prev) ==
    LET both == KeySet(cur) \cap KeySet(prev)
        active_both == {k \in both : active_of(prev, k) /\ active_of(cur, k)}
        cc == compare_cols(cur, prev)
        c == rows_with_key_in(cur, active_both)
        p == rows_with_key_in(prev, active_both)
        c_sig == row_hashes(select_columns(c, cc))
        p_sig == row_hashes(select_columns(p, cc))
    IN  IF Len(cc) = 0 \/ active_both = {} THEN {}
        ELSE {c.rows[i]["_key"] : i \in
                {x \in 1..Len(c.rows) :
                    \E y \in 1..Len(p.rows) :
                        /\ p.rows[y]["_key"] = c.rows[x]["_key"]
                        /\ c_sig[x] # p_sig[y]}}

\* ADDED: reactivated (in both, inactive before, active now) ...
reactivated_keys(cur, prev) ==
    {k \in KeySet(cur) \cap KeySet(prev) : ~active_of(prev, k) /\ active_of(cur, k)}

\* ... and added_new (only in current, active).
added_new_keys(cur, prev) ==
    {k \in KeySet(cur) \ KeySet(prev) : active_of(cur, k)}

\* REMOVED: soft (in both, active before, inactive now) ...
removed_soft_keys(cur, prev) ==
    {k \in KeySet(cur) \cap KeySet(prev) : active_of(prev, k) /\ ~active_of(cur, k)}

\* ... and missing (only in previous, active there).
removed_missing_keys(cur, prev) ==
    {k \in KeySet(prev) \ KeySet(cur) : active_of(prev, k)}

\* Mutant: the default tag "reactivated" is lost, every added row is "added_new".
added_frame_all_new(cur, prev) ==
    with_constant(rows_with_key_in(cur, reactivated_keys(cur, prev)
                                        \cup added_new_keys(cur, prev)),
                  "_delta_type", "added_new")

\* added_df: rows of current, tagged "reactivated", then "added_new" where
\* the key is new.
added_frame(cur, prev) ==
    LET rows == rows_with_key_in(cur, reactivated_keys(cur, prev)
                                      \cup added_new_keys(cur, prev))
    IN  with_column(rows, "_delta_type",
                    [i \in 1..Len(rows.rows) |->
                        IF rows.rows[i]["_key"] \in added_new_keys(cur, prev)
                        THEN "added_new" ELSE "reactivated"])

\* Mutant: the soft removals are taken from the previous snapshot.
removed_soft_frame_from_previous(cur, prev) ==
    with_constant(rows_with_key_in(prev, removed_soft_keys(cur, prev)),
                  "_delta_type", "removed_soft")

\* removed_soft_df: rows of current (they carry the removal date).
removed_soft_frame(cur, prev) ==
    with_constant(rows_with_key_in(cur, removed_soft_keys(cur, prev)),
                  "_delta_type", "removed_soft")

\* removed_missing_df: rows of previous (the last known state).
removed_missing_frame(cur, prev) ==
    with_constant(rows_with_key_in(prev, removed_missing_keys(cur, prev)),
                  "_delta_type", "removed_missing_in_current")

\* updated_df: rows of current.
updated_frame(cur, prev) ==
    with_constant(rows_with_key_in(cur, updated_keys_of(cur, prev)),
                  "_delta_type", "updated_active")

\* The change-set of two keyed frames (lines 268-332).
key_delta(cur, prev) ==
    [added_df |-> added_frame(cur, prev),
     removed_soft_df |-> removed_soft_frame(cur, prev),
     removed_missing_df |-> removed_missing_frame(cur, prev),
     removed_df |-> concat(removed_soft_frame(cur, prev), removed_missing_frame(cur, prev)),
     updated_df |-> updated_frame(cur, prev)]

----------------------------------------------------------------------------
(* paths.py and the bronze HISTORY tree *)

\* A directory is a sequence of components; a partition component k=v
\* carries its value as text.
Plain(name) == [part |-> FALSE, k |-> name, v |-> << >>]
Partition(key, value) == [part |-> TRUE, k |-> key, v |-> value]

\* sorted(partitions.keys()) on the keys the pipelines use.
PartitionKeyOrder == << "run_date", "run_id", "vendor" >>

\* Paths.local_dir: <layer>/<dataset>/<version>/(k=v in sorted key order).
\* _slug leaves the alphanumeric values of the model as they are.
local_dir(layer, dataset, version, partitions) ==
    LET has(k) == k \in DOMAIN partitions
        keys == SelectSeq(PartitionKeyOrder, has)
    IN  << Plain(layer), Plain(dataset), Plain(version) >>
        \o [i \in 1..Len(keys) |-> Partition(keys[i], partitions[keys[i]])]

\* f"run_id={run_id}" in str(d): the needle holds no "/" and a slugged
\* value holds no "=", so it can only match inside a component run_id=v,
\* at its start, when run_id is a prefix of v.
path_mentions_run(d, run_id) ==
    \E i \in 1..Len(d) : d[i].part /\ d[i].k = "run_id" /\ IsPrefix(run_id, d[i].v)

\* _latest_prior_history_dir: the snapshot directories under
\* bronze/<dataset>/HISTORY/vendor=<vendor> that do not mention the current
\* run, and of those the ones with the greatest mtime ({} stands for None).
_latest_prior_history_dir(tree, dataset, vendor, current_run_id) ==
    LET base == local_dir("bronze", dataset, "HISTORY", [vendor |-> vendor])
        candidates == {e \in tree : IsPrefix(base, e.dir)
                                    /\ ~path_mentions_run(e.dir, current_run_id)}
    IN  {e.dir : e \in {x \in candidates : \A y \in candidates : y.mtime <= x.mtime}}

NoDir == << >>
NoError == [type |-> "none", context |-> NoDir, sample |-> {}]

\* _read_snapshot: the frames stored at a directory ({} when there is none).
_read_snapshot(tree, d) == {e.df : e \in {x \in tree : x.dir = d}}

DATASET == "scope_release_distribution"
VENDOR == << "A" >>

\* write_dataset of the three parts into the run's delta directory.
delta_out_dir(parts) ==
    local_dir("silver", "scope_release_distribution_delta", "HISTORY",
              [vendor |-> VENDOR, run_date |-> parts.run_date, run_id |-> parts.run_id])

written_parts(out_dir, d) ==
    {[dir |-> out_dir, basename |-> "added", df |-> d.added_df],
     [dir |-> out_dir, basename |-> "removed", df |-> d.removed_df],
     [dir |-> out_dir, basename |-> "updated", df |-> d.updated_df]}

\* Mutant: the skip branch reports the flag of the success branch.
skipped_metrics_as_found(cur_dir) ==
    [delta_mode |-> "keyed_by_dataset",
     delta_previous_found |-> TRUE,
     delta_current_dir |-> cur_dir,
     added_rows |-> 0,
     removed_rows |-> 0,
     updated_rows |-> 0,
     note |-> "No prior snapshot found; delta skipped."]

skipped_metrics(cur_dir) ==
    [delta_mode |-> "keyed_by_dataset",
     delta_previous_found |-> FALSE,
     delta_current_dir |-> cur_dir,
     added_rows |-> 0,
     removed_rows |-> 0,
     updated_rows |-> 0,
     note |-> "No prior snapshot found; delta skipped."]

delta_metrics(cur_dir, prev_dir, out_dir, d) ==
    LET react == {i \in 1..Len(d.added_df.rows) :
                     d.added_df.rows[i]["_delta_type"] = "reactivated"}
    IN  [delta_mode |-> "keyed_distribution",
         delta_previous_found |-> TRUE,
         delta_previous_dir |-> prev_dir,
         delta_current_dir |-> cur_dir,
         added_rows |-> Len(d.added_df.rows),
         reactivated_rows |-> Cardinality(react),
         removed_rows |-> Len(d.removed_df.rows),
         removed_soft_rows |-> Len(d.removed_soft_df.rows),
         removed_missing_rows |-> Len(d.removed_missing_df.rows),
         updated_rows |-> Len(d.updated_df.rows),
         delta_out_dir |-> out_dir,
         key_cols |-> << "_scope_id", "_floc" >>,
         distribution_blank_scope_filled_with |-> COMP]

\* A raised ValueError of _ensure_unique_keys.
duplicate_error(context, df, S) ==
    [type |-> "ValueError: Duplicate delta keys",
     context |-> context,
     sample |-> {[key |-> k, count |-> KeyCount(df, k)] : k \in S}]

Raise(err) ==
    /\ delta_pc' = "raised"
    /\ delta_err' = err
    /\ UNCHANGED <<fs, run_partitions, delta_ret, delta_files>>

\* compute_key_delta(dataset, vendor, run_partitions)
ComputeKeyDelta ==
    /\ delta_pc = "call"
    /\ LET cur_dir == local_dir("bronze", DATASET, "HISTORY",
                          [vendor |-> VENDOR, run_date |-> run_partitions.run_date,
                           run_id |-> run_partitions.run_id])
           prevs == _latest_prior_history_dir(fs, DATASET, VENDOR, run_partitions.run_id)
       IN  IF prevs = {}
           THEN /\ delta_pc' = "returned"
                /\ delta_ret' = [metrics |-> skipped_metrics(cur_dir), prev_dir |-> NoDir]
                /\ UNCHANGED <<fs, run_partitions, delta_files, delta_err>>
           ELSE \E prev_dir \in prevs :
                  IF _read_snapshot(fs, cur_dir) = {}
                  THEN Raise([type |-> "FileNotFoundError", context |-> cur_dir,
                              sample |-> {}])
                  ELSE \E cur_raw \in _read_snapshot(fs, cur_dir),
                          prev_raw \in _read_snapshot(fs, prev_dir) :
                    IF \/ distribution_columns_missing(cur_raw)
                       \/ distribution_columns_missing(prev_raw)
                    THEN Raise([type |-> "ValueError: missing required columns",
                                context |-> NoDir, sample |-> {}])
                    ELSE LET cur == _distribution_keyed(cur_raw)
                             prev == _distribution_keyed(prev_raw)
                             d == key_delta(cur, prev)
                             out_dir == delta_out_dir(run_partitions)
                         IN  IF has_duplicate_keys(cur)
                             THEN \E S \in duplicate_samples(cur) :
                                     Raise(duplicate_error(cur_dir, cur, S))
                             ELSE IF has_duplicate_keys(prev)
                             THEN \E S \in duplicate_samples(prev) :
                                     Raise(duplicate_error(prev_dir, prev, S))
                             ELSE /\ delta_pc' = "returned"
                                  /\ delta_files' = delta_files \cup written_parts(out_dir, d)
                                  /\ delta_ret' =
                                        [metrics |-> delta_metrics(cur_dir, prev_dir, out_dir, d),
                                         prev_dir |-> prev_dir]
                                  /\ UNCHANGED <<fs, run_partitions, delta_err>>

----------------------------------------------------------------------------
(* The snapshots drawn for compute_key_delta *)

S1 == << "S", "1" >>
L1 == << "L", "1" >>
L2 == << "L", "2" >>
DATE1 == << "2", "0", "2", "4", "-", "0", "1", "-", "1", "0" >>
TXT_A == << "a" >>
TXT_B == << "b" >>
D1 == << "d", "1" >>
D2 == << "d", "2" >>
R1 == << "r", "1" >>
R2 == << "r", "2" >>

SHEET_COLUMNS == << "SCOPE_ID", "FLOC", "SCOPE_REMOVAL_DATE", "Circuit" >>

SheetRow(scope, floc, removal, circuit) ==
    [SCOPE_ID |-> scope, FLOC |-> floc, SCOPE_REMOVAL_DATE |-> removal,
     Circuit |-> circuit]

\* Rows of a Distribution sheet: one location under scope S1 (active,
\* removed, with another attribute, with the scope id or the removal date
\* written differently), one location with no scope, one row without FLOC.
RowUniverse ==
    << SheetRow(Str(S1), Str(L1), None, Str(TXT_A)),
       SheetRow(Str(S1), Str(L1), None, Str(TXT_B)),
       SheetRow(Str(S1), Str(L1), Str(DATE1), Str(TXT_A)),
       SheetRow(Str(S1), Str(L1), Str(DATE1), Str(TXT_B)),
       SheetRow(Str(<< "S", "1", " " >>), Str(L1), None, Str(TXT_A)),
       SheetRow(Str(S1), Str(L1), Str(<< "n", "/", "a" >>), Str(TXT_A)),
       SheetRow(Str(<< >>), Str(L2), None, Str(TXT_A)),
       SheetRow(None, Str(L2), Str(DATE1), Str(TXT_A)),
       SheetRow(Str(S1), None, None, Str(TXT_A)) >>

\* The compared sets and dicts are keyed by _key, so the snapshots are drawn
\* up to the order of their rows.
RowPicks ==
    UNION {{s \in [1..n -> 1..Len(RowUniverse)] :
               \A i \in 1..n : \A j \in 1..n : i <= j => s[i] <= s[j]} :
           n \in 0..MaxRows}

SheetFrame(pick) ==
    [columns |-> SHEET_COLUMNS, rows |-> [i \in 1..Len(pick) |-> RowUniverse[pick[i]]]]


\* ManyKeys locations, each listed twice.
ManyDuplicates ==
    [columns |-> SHEET_COLUMNS,
     rows |-> [i \in 1..(2 * ManyKeys) |->
                  LET n == (i + 1) \div 2
                      digits == << "0", "1", "2", "3", "4", "5", "6", "7", "8", "9" >>
                  IN  SheetRow(Str(<< "S", "1" >>),
                               Str(<< "L", digits[(n \div 10) + 1], digits[(n % 10) + 1] >>),
                               None, Str(TXT_A))]]

Snapshots == {SheetFrame(p) : p \in RowPicks} \cup {ManyDuplicates}

\* Where pipeline.run_pipeline writes the run's own snapshot.
current_history_dir(parts) ==
    local_dir("bronze", DATASET, "HISTORY",
              [vendor |-> VENDOR, run_date |-> parts.run_date, run_id |-> parts.run_id])

\* A snapshot directory of an earlier run inside the tree that
\* _latest_prior_history_dir walks: HISTORY/vendor=<v>/run_date=<d>/run_id=<r>.
earlier_history_dir ==
    local_dir("bronze", DATASET, "HISTORY", [vendor |-> VENDOR])
    \o << Partition("run_date", D1), Partition("run_id", R1) >>

DeltaIdle ==
    /\ fs = {}
    /\ run_partitions = << >>
    /\ delta_pc = "idle"
    /\ delta_ret = << >>
    /\ delta_files = {}
    /\ delta_err = NoError

KeyedIdle ==
    /\ keyed_in = << >>
    /\ keyed_pc = "idle"
    /\ keyed_out = << >>

RunsIdle ==
    /\ bronze_current = << >>
    /\ runs = << >>

HashIdle ==
    /\ hash_in = << >>
    /\ hash_pc = "idle"
    /\ hash_out = << >>

CollapseIdle ==
    /\ events_in = << >>
    /\ collapse_pc = "idle"
    /\ collapse_out = << >>

GoldIdle ==
    /\ gold_in = << >>
    /\ gold_pc = "idle"
    /\ gold_out = << >>
    /\ gold_files = {}

EligIdle ==
    /\ elig_in = << >>
    /\ elig_pc = "idle"
    /\ elig_out = << >>
    /\ elig_prev = << >>

\* compute_key_delta is called for run r2 with its snapshot written and
\* with no or one earlier snapshot in the tree.
InitDelta ==
    /\ run_partitions = [run_date |-> D2, run_id |-> R2]
    /\ \E c \in Snapshots :
          \/ fs = {[dir |-> current_history_dir(run_partitions), df |-> c, mtime |-> 2]}
          \/ \E p \in Snapshots :
                fs = {[dir |-> current_history_dir(run_partitions), df |-> c, mtime |-> 2],
                      [dir |-> earlier_history_dir, df |-> p, mtime |-> 1]}
    /\ delta_pc = "call"
    /\ delta_ret = [metrics |-> [delta_mode |-> "none"], prev_dir |-> NoDir]
    /\ delta_files = {}
    /\ delta_err = NoError
    /\ HashIdle
    /\ CollapseIdle
    /\ GoldIdle
    /\ EligIdle
    /\ KeyedIdle
    /\ RunsIdle

NextDelta == ComputeKeyDelta /\ UNCHANGED <<hash_vars, collapse_vars, gold_vars, elig_vars, keyed_vars, run_vars>>

SpecDelta == InitDelta /\ [][NextDelta]_vars

----------------------------------------------------------------------------
(* delta.py: _keyed applied to one raw snapshot *)

\* Rows of a drawn Transmission sheet.
MaxSheetRows == 2

S2 == << "S", "2" >>

TRANSMISSION_COLUMNS == << "FLOC", "Scope Package #1", "Scope Package #2" >>

\* Transmission sheets: a location, or a row without FLOC, with the first
\* package filled, blank, null or only white space, and the second package
\* the same scope, another scope or blank.
TransmissionSheets ==
    LET universe ==
            {[c \in SeqToSet(TRANSMISSION_COLUMNS) |->
                 CASE c = "FLOC" -> floc
                   [] c = "Scope Package #1" -> p1
                   [] OTHER -> p2] :
             floc \in {Str(L1), None},
             p1 \in {Str(S1), Str(<< >>), None, Str(<< " " >>)},
             p2 \in {Str(S1), Str(S2), Str(<< >>)}}
    IN  { [columns |-> TRANSMISSION_COLUMNS, rows |-> rows] :
          rows \in UNION {[1..n -> universe] : n \in 0..MaxSheetRows} }

\* A sheet without FLOC.
NoFlocSheet ==
    [columns |-> << "Scope Package #1" >>,
     rows |-> << [c \in {"Scope Package #1"} |-> Str(S1)] >>]

\* _keyed(df_raw, dataset=dataset)
ApplyKeyed ==
    /\ keyed_pc = "call"
    /\ LET missing == IF keyed_in.dataset = "scope_release_transmission"
                      THEN transmission_columns_missing(keyed_in.df_raw)
                      ELSE distribution_columns_missing(keyed_in.df_raw)
       IN  IF missing
           THEN keyed_pc' = "raised" /\ keyed_out' = << >>
           ELSE /\ keyed_pc' = "returned"
                /\ keyed_out' = _keyed(keyed_in.df_raw, keyed_in.dataset)
    /\ UNCHANGED keyed_in

\* A Distribution sheet in distribution mode; a Transmission sheet, a sheet
\* whose package column was renamed to SCOPE_ID, or a sheet without FLOC in
\* transmission mode.
InitKeyed ==
    /\ \/ \E df \in Snapshots :
             keyed_in = [dataset |-> "scope_release_distribution", df_raw |-> df]
       \/ \E df \in TransmissionSheets \cup Snapshots \cup {NoFlocSheet} :
             keyed_in = [dataset |-> "scope_release_transmission", df_raw |-> df]
    /\ keyed_pc = "call"
    /\ keyed_out = << >>
    /\ DeltaIdle
    /\ HashIdle
    /\ CollapseIdle
    /\ GoldIdle
    /\ EligIdle
    /\ RunsIdle

NextKeyed ==
    ApplyKeyed /\ UNCHANGED <<delta_vars, hash_vars, collapse_vars, gold_vars, elig_vars, run_vars>>

SpecKeyed == InitKeyed /\ [][NextKeyed]_vars

----------------------------------------------------------------------------
(* etl_001 pipeline.py: successive runs for the Distribution sheet of one   *)
(* vendor                                                                   *)

\* Runs in one behaviour.
MaxRuns == 3

R10 == << "r", "1", "0" >>
R3 == << "r", "3" >>

\* The run ids start_run hands out; one is a prefix of another.
RUN_IDS == {R1, R10, R2, R3}

\* The sheets a run receives: one unit, two units one of them changed, and
\* a sheet that lists the unit S1|L1 twice.
RunSheets == {SheetFrame(<< 1 >>), SheetFrame(<< 2, 7 >>), SheetFrame(<< 1, 2 >>)}

\* The mtime of the next directory written.
NextMtime == 1 + Cardinality(fs)

\* run_pipeline, lines 60-72: the sheet is read and validated (CONTRACTS
\* requires nothing) and written as the run's snapshot into bronze HISTORY.
WriteHistory ==
    /\ delta_pc \in {"idle", "returned", "raised"}
    /\ Len(runs) < MaxRuns
    /\ \E run_id \in RUN_IDS, df \in RunSheets :
          LET parts == [run_date |-> D2, run_id |-> run_id]
          IN  /\ \A e \in fs : \A i \in 1..Len(e.dir) :
                     ~(e.dir[i].part /\ e.dir[i].k = "run_id" /\ e.dir[i].v = run_id)
              /\ run_partitions' = parts
              /\ fs' = fs \cup {[dir |-> current_history_dir(parts), df |-> df,
                                 mtime |-> NextMtime]}
              /\ runs' = Append(runs, [partitions |-> parts, df |-> df,
                                       status |-> "RUNNING", prev_dir |-> NoDir,
                                       history_before |-> fs,
                                       current_before |-> bronze_current,
                                       delta_before |-> delta_files])
    /\ delta_pc' = "call"
    /\ delta_ret' = [metrics |-> [delta_mode |-> "none"], prev_dir |-> NoDir]
    /\ delta_err' = NoError
    /\ UNCHANGED <<delta_files, bronze_current>>

\* run_pipeline, lines 74-94: compute_key_delta, and when it returned the
\* sheet is written to bronze CURRENT; run.py marks the run SUCCESS, or
\* FAILED when compute_key_delta raised.
DeltaAndCurrent ==
    /\ runs # << >>
    /\ runs[Len(runs)].status = "RUNNING"
    /\ ComputeKeyDelta
    /\ bronze_current' = IF delta_pc' = "returned" THEN runs[Len(runs)].df
                         ELSE bronze_current
    /\ runs' = [runs EXCEPT ![Len(runs)].status =
                                IF delta_pc' = "returned" THEN "SUCCESS" ELSE "FAILED",
                            ![Len(runs)].prev_dir = delta_ret'.prev_dir]

\* Before the first run the tree that _latest_prior_history_dir walks,
\* HISTORY/vendor=<v>/, is empty or holds the snapshot of one earlier run,
\* with unique keys.
InitRuns ==
    /\ \/ fs = {}
       \/ \E run_id \in RUN_IDS :
             fs = {[dir |-> local_dir("bronze", DATASET, "HISTORY", [vendor |-> VENDOR])
                            \o << Partition("run_date", D1), Partition("run_id", run_id) >>,
                    df |-> SheetFrame(<< 1 >>), mtime |-> 1]}
    /\ run_partitions = << >>
    /\ delta_pc = "idle"
    /\ delta_ret = << >>
    /\ delta_files = {}
    /\ delta_err = NoError
    /\ bronze_current = << >>
    /\ runs = << >>
    /\ HashIdle
    /\ CollapseIdle
    /\ GoldIdle
    /\ EligIdle
    /\ KeyedIdle

NextRuns ==
    \/ WriteHistory /\ UNCHANGED <<hash_vars, collapse_vars, gold_vars, elig_vars, keyed_vars>>
    \/ DeltaAndCurrent /\ UNCHANGED <<hash_vars, collapse_vars, gold_vars, elig_vars, keyed_vars>>

SpecRuns == InitRuns /\ [][NextRuns]_vars

----------------------------------------------------------------------------
(* Row signatures: row_hashes is applied to two frames over the same       *)
(* columns, and compute_key_delta compares the same two frames as the      *)
(* previous and the current snapshot.                                      *)

\* Rows per frame.
MaxHashRows == 1

HASH_COLUMNS == << "SCOPE_ID", "FLOC", "Circuit" >>

\* The column orders the second frame is drawn in.
ColumnOrders ==
    { << "SCOPE_ID", "FLOC", "Circuit" >>,
      << "Circuit", "FLOC", "SCOPE_ID" >>,
      << "FLOC", "Circuit", "SCOPE_ID" >> }

HashRowUniverse ==
    { [c \in SeqToSet(HASH_COLUMNS) |->
          IF c = "SCOPE_ID" THEN Str(S1) ELSE IF c = "FLOC" THEN f ELSE a] :
      f \in {Str(<< >>), Str(PIPE)},
      a \in {None, NaN, NA, Str(<< >>), Str(PIPE)} }

HashRowSeqs ==
    UNION {[1..n -> HashRowUniverse] : n \in 0..MaxHashRows}

\* row_hashes(a), row_hashes(b)
RowHashes ==
    /\ hash_pc = "call"
    /\ hash_out' = [a |-> row_hashes(hash_in.a), b |-> row_hashes(hash_in.b)]
    /\ hash_pc' = "hashed"
    /\ UNCHANGED hash_in

InitHash ==
    /\ run_partitions = [run_date |-> D2, run_id |-> R2]
    /\ \E ra \in HashRowSeqs, rb \in HashRowSeqs, order \in ColumnOrders :
          /\ hash_in = [a |-> [columns |-> HASH_COLUMNS, rows |-> ra],
                        b |-> [columns |-> order, rows |-> rb]]
          /\ fs = {[dir |-> current_history_dir(run_partitions),
                    df |-> hash_in.b, mtime |-> 2],
                   [dir |-> earlier_history_dir, df |-> hash_in.a, mtime |-> 1]}
    /\ hash_pc = "call"
    /\ hash_out = << >>
    /\ delta_pc = "call"
    /\ delta_ret = [metrics |-> [delta_mode |-> "none"], prev_dir |-> NoDir]
    /\ delta_files = {}
    /\ delta_err = NoError
    /\ CollapseIdle
    /\ GoldIdle
    /\ EligIdle
    /\ KeyedIdle
    /\ RunsIdle

NextHash ==
    \/ RowHashes /\ UNCHANGED <<delta_vars, collapse_vars, gold_vars, elig_vars, keyed_vars, run_vars>>
    \/ ComputeKeyDelta /\ UNCHANGED <<hash_vars, collapse_vars, gold_vars, elig_vars, keyed_vars, run_vars>>

SpecHash == InitHash /\ [][NextHash]_vars

----------------------------------------------------------------------------
(* etl_004_gold_scope_assignment_current/pipeline.py: event collapse *)

REMOVAL == << "r", "e", "m", "o", "v", "a", "l" >>
MOVE_TO_HELO == << "m", "o", "v", "e", "_", "t", "o", "_", "h", "e", "l", "o" >>

\* Mutant: the two priorities are swapped.
_EVENT_PRIORITY_removal_first == (MOVE_TO_HELO :> 1) @@ (REMOVAL :> 2)

_EVENT_PRIORITY == (MOVE_TO_HELO :> 2) @@ (REMOVAL :> 1)

\* e["event_type"].map(_EVENT_PRIORITY).fillna(0).astype("int64")
event_priority_of(event_type) ==
    IF ~isna(event_type) /\ event_type.s \in DOMAIN _EVENT_PRIORITY
    THEN _EVENT_PRIORITY[event_type.s]
    ELSE 0

EVENT_STRING_COLUMNS == {"vendor", "scope_floc_key", "event_type", "run_date", "run_id"}

\* The "normalize" block: the string columns as strings, the effective date
\* parsed (NaT when the column is missing), the priority added.
normalize_events(df) ==
    LET cols == SeqToSet(df.columns)
        eff(r) == IF "event_effective_date" \in cols
                  THEN to_datetime(r["event_effective_date"]) ELSE NA
        typed == [i \in 1..Len(df.rows) |->
                     [c \in cols \cup {"event_effective_date"} |->
                         IF c = "event_effective_date" THEN eff(df.rows[i])
                         ELSE IF c \in EVENT_STRING_COLUMNS
                              THEN astype_string(df.rows[i][c])
                              ELSE df.rows[i][c]]]
        e == [columns |-> IF "event_effective_date" \in cols THEN df.columns
                          ELSE Append(df.columns, "event_effective_date"),
              rows |-> typed]
    IN  with_column(e, "_event_priority",
                    [i \in 1..Len(typed) |-> event_priority_of(typed[i]["event_type"])])

\* One descending sort key with na_position="last": x comes strictly before y.
text_before(x, y) ==
    \/ ~isna(x) /\ isna(y)
    \/ ~isna(x) /\ ~isna(y) /\ StrLess(y.s, x.s)

\* x and y tie on a sort key.
text_tie(x, y) ==
    \/ isna(x) /\ isna(y)
    \/ ~isna(x) /\ ~isna(y) /\ x.s = y.s

\* by=["event_effective_date", "run_date", "_event_priority", "run_id"],
\* all descending: r1 comes strictly before r2.
event_before(r1, r2) ==
    \/ text_before(r1["event_effective_date"], r2["event_effective_date"])
    \/ /\ text_tie(r1["event_effective_date"], r2["event_effective_date"])
       /\ \/ text_before(r1["run_date"], r2["run_date"])
          \/ /\ text_tie(r1["run_date"], r2["run_date"])
             /\ \/ r1["_event_priority"] > r2["_event_priority"]
                \/ /\ r1["_event_priority"] = r2["_event_priority"]
                   /\ text_before(r1["run_id"], r2["run_id"])

\* DataFrame.sort_values on several keys is a stable sort: rows that tie on
\* every key keep their order.
sort_events(rows) ==
    LET n == Len(rows)
        pos(i) == 1 + Cardinality({j \in 1..n :
                        \/ event_before(rows[j], rows[i])
                        \/ (~event_before(rows[i], rows[j]) /\ j < i)})
    IN  [p \in 1..n |-> rows[CHOOSE i \in 1..n : pos(i) = p]]

\* Two cells are equal for drop_duplicates: nulls equal each other.
na_equal(x, y) == (isna(x) /\ isna(y)) \/ x = y

same_vendor_key(r1, r2) ==
    /\ na_equal(r1["vendor"], r2["vendor"])
    /\ na_equal(r1["scope_floc_key"], r2["scope_floc_key"])

\* The rows at the indices idx, in order.
rows_at(rows, idx) ==
    LET nth(p) == CHOOSE i \in idx : Cardinality({j \in idx : j < i}) = p - 1
    IN  [p \in 1..Cardinality(idx) |-> rows[nth(p)]]

\* drop_duplicates(subset=["vendor", "scope_floc_key"], keep="first")
drop_duplicates_first(rows) ==
    rows_at(rows, {i \in 1..Len(rows) :
                      \A j \in 1..(i - 1) : ~same_vendor_key(rows[j], rows[i])})

KEEP_COLUMNS ==
    << "vendor", "scope_floc_key", "event_type", "event_effective_date",
       "run_date", "run_id", "source_file_saved", "source_sheet", "visit_no",
       "scope_id", "floc" >>

\* Mutant: the sorted events are returned without dropping the older ones.
_collapse_latest_events_keep_all(df_events) ==
    IF Len(df_events.rows) = 0 THEN df_events
    ELSE LET e == normalize_events(df_events)
             present(c) == c \in SeqToSet(e.columns)
         IN  select_columns([columns |-> e.columns, rows |-> sort_events(e.rows)],
                            SelectSeq(KEEP_COLUMNS, present))

_collapse_latest_events(df_events) ==
    IF Len(df_events.rows) = 0 THEN df_events
    ELSE LET e == normalize_events(df_events)
             latest == drop_duplicates_first(sort_events(e.rows))
             present(c) == c \in SeqToSet(e.columns)
         IN  select_columns([columns |-> e.columns, rows |-> latest],
                            SelectSeq(KEEP_COLUMNS, present))

\* latest_events = _collapse_latest_events(events_df)
CollapseLatestEvents ==
    /\ collapse_pc = "call"
    /\ collapse_out' = _collapse_latest_events(events_in)
    /\ collapse_pc' = "returned"
    /\ UNCHANGED events_in

\* Rows in one drawn event log.
MaxEvents == 2

EVENT_COLUMNS ==
    << "vendor", "scope_floc_key", "event_type", "event_effective_date",
       "run_date", "run_id" >>

DATE2 == << "2", "0", "2", "4", "-", "0", "1", "-", "1", "1" >>
V1 == << "V", "1" >>
K1 == << "S", "1", "|", "L", "1" >>
K2 == << "S", "1", "|", "L", "2" >>

\* An event type _EVENT_PRIORITY does not list.
TRANSFER == << "t", "r", "a", "n", "s", "f", "e", "r" >>

\* The batches events are drawn from: (run_date, run_id).
Batches == { <<D1, R1>>, <<D1, R2>>, <<D2, R1>> }

EventUniverse ==
    { [c \in SeqToSet(EVENT_COLUMNS) |->
          CASE c = "vendor" -> Str(V1)
            [] c = "scope_floc_key" -> Str(k)
            [] c = "event_type" -> t
            [] c = "event_effective_date" -> d
            [] c = "run_date" -> Str(b[1])
            [] c = "run_id" -> Str(b[2])] :
      k \in {K1, K2},
      t \in {Str(REMOVAL), Str(MOVE_TO_HELO), None},
      d \in {None, Str(DATE1), Str(DATE2)},
      b \in Batches }

EventLogs ==
    { [columns |-> EVENT_COLUMNS, rows |-> rows] :
      rows \in UNION {[1..n -> EventUniverse] : n \in 0..MaxEvents} }

InitCollapse ==
    /\ events_in \in EventLogs
    /\ collapse_pc = "call"
    /\ collapse_out = << >>
    /\ DeltaIdle
    /\ HashIdle
    /\ GoldIdle
    /\ EligIdle
    /\ KeyedIdle
    /\ RunsIdle

NextCollapse == CollapseLatestEvents /\ UNCHANGED <<delta_vars, hash_vars, gold_vars, elig_vars, keyed_vars, run_vars>>

SpecCollapse == InitCollapse /\ [][NextCollapse]_vars

\* Rows in an event log whose order is varied.
MaxReorderedEvents == 2

\* The logs of one run date, in every order: of the key K1 any event, also
\* with the unlisted type, and of the key K2 the dated events of one batch.
InitReorder ==
    /\ \E rows \in UNION {[1..n ->
                             LET day == {e \in EventUniverse : e["run_date"] = Str(D1)}
                                 k1 == {e \in day : e["scope_floc_key"] = Str(K1)}
                                 k2 == {e \in day : /\ e["scope_floc_key"] = Str(K2)
                                                    /\ e["run_id"] = Str(R1)
                                                    /\ e["event_effective_date"] = Str(DATE1)
                                                    /\ ~isna(e["event_type"])}
                             IN  k1 \cup k2
                                 \cup {[e EXCEPT !["event_type"] = Str(TRANSFER)] : e \in k1}] :
                          n \in 0..MaxReorderedEvents} :
          events_in = [columns |-> EVENT_COLUMNS, rows |-> rows]
    /\ collapse_pc = "call"
    /\ collapse_out = << >>
    /\ DeltaIdle
    /\ HashIdle
    /\ GoldIdle
    /\ EligIdle
    /\ KeyedIdle
    /\ RunsIdle

SpecReorder == InitReorder /\ [][NextCollapse]_vars

----------------------------------------------------------------------------
(* etl_004_gold_scope_assignment_current/pipeline.py: assignment build *)

HELO == << "H", "E", "L", "O" >>
DRONE == << "D", "R", "O", "N", "E" >>
DISTRIBUTION == << "D", "i", "s", "t", "r", "i", "b", "u", "t", "i", "o", "n" >>
DRONE_DIST_DATASET ==
    << "s", "c", "o", "p", "e", "_", "r", "e", "l", "e", "a", "s", "e", "_",
       "d", "i", "s", "t", "r", "i", "b", "u", "t", "i", "o", "n" >>
HELO_DIST_DATASET ==
    << "h", "e", "l", "o", "_", "s", "c", "o", "p", "e", "_",
       "d", "i", "s", "t", "r", "i", "b", "u", "t", "i", "o", "n" >>
REMOVED == << "R", "E", "M", "O", "V", "E", "D" >>
ACTIVE_HELO == << "A", "C", "T", "I", "V", "E", "_", "H", "E", "L", "O" >>
ACTIVE_DRONE == << "A", "C", "T", "I", "V", "E", "_", "D", "R", "O", "N", "E" >>
MOVED_TO_HELO == << "M", "O", "V", "E", "D", "_", "T", "O", "_", "H", "E", "L", "O" >>
INACTIVE == << "I", "N", "A", "C", "T", "I", "V", "E" >>

\* Series.astype("boolean"): nulls become pd.NA.
astype_boolean(v) == IF isna(v) THEN NA ELSE v

\* _prep_assignment_frame raises KeyError when a required column is missing.
required_column_missing(df) ==
    {"floc", "scope_id", "scope_floc_key"} \ SeqToSet(df.columns) # {}

PREP_COLUMNS ==
    << "vendor", "assignment_method", "asset_class", "source_dataset", "base_is_active" >>

\* Mutant: every prepared row is active, whatever the line says.
_prep_assignment_frame_always_active(df, method, vendor, asset_class, source_dataset) ==
    LET has(c) == c \in SeqToSet(df.columns)
        new(c) == ~has(c)
        cols == df.columns \o SelectSeq(PREP_COLUMNS, new)
        cell(r, c) ==
            CASE c = "vendor" ->
                   astype_string(IF has("vendor") THEN r["vendor"] ELSE Str(vendor))
              [] c = "assignment_method" -> Str(method)
              [] c = "asset_class" -> Str(asset_class)
              [] c = "source_dataset" -> Str(source_dataset)
              [] c = "base_is_active" ->
                   True
              [] c \in {"floc", "scope_id", "scope_floc_key"} -> astype_string(r[c])
              [] OTHER -> r[c]
    IN  [columns |-> cols,
         rows |-> [i \in 1..Len(df.rows) |->
                      [c \in SeqToSet(cols) |-> cell(df.rows[i], c)]]]

_prep_assignment_frame(df, method, vendor, asset_class, source_dataset) ==
    LET has(c) == c \in SeqToSet(df.columns)
        new(c) == ~has(c)
        cols == df.columns \o SelectSeq(PREP_COLUMNS, new)
        cell(r, c) ==
            CASE c = "vendor" ->
                   astype_string(IF has("vendor") THEN r["vendor"] ELSE Str(vendor))
              [] c = "assignment_method" -> Str(method)
              [] c = "asset_class" -> Str(asset_class)
              [] c = "source_dataset" -> Str(source_dataset)
              [] c = "base_is_active" ->
                   IF method = HELO THEN True
                   ELSE IF has("is_active") THEN astype_boolean(r["is_active"])
                   ELSE True
              [] c \in {"floc", "scope_id", "scope_floc_key"} -> astype_string(r[c])
              [] OTHER -> r[c]
    IN  [columns |-> cols,
         rows |-> [i \in 1..Len(df.rows) |->
                      [c \in SeqToSet(cols) |-> cell(df.rows[i], c)]]]

\* Mutant: DRONE is preferred over HELO.
method_priority_drone_first(assignment_method) ==
    IF assignment_method = Str(HELO) THEN 1
    ELSE IF assignment_method = Str(DRONE) THEN 2
    ELSE 0

\* d["assignment_method"].map({"HELO": 2, "DRONE": 1}).fillna(0)
method_priority(assignment_method) ==
    IF assignment_method = Str(HELO) THEN 2
    ELSE IF assignment_method = Str(DRONE) THEN 1
    ELSE 0

\* The orders in which the indices idx may follow each other.
Orders(idx) ==
    {f \in [1..Cardinality(idx) -> idx] :
        \A p, q \in 1..Cardinality(idx) : p # q => f[p] # f[q]}

\* sort_values(by=["_method_pri"], ascending=False): one key is sorted with
\* quicksort, so rows of equal priority may come out in any order.
sorted_by_method_priority(rows) ==
    LET class(n) == {i \in 1..Len(rows) : method_priority(rows[i]["assignment_method"]) = n}
    IN  {[p \in 1..Len(rows) |-> rows[(f2 \o f1 \o f0)[p]]] :
            f2 \in Orders(class(2)), f1 \in Orders(class(1)), f0 \in Orders(class(0))}

\* _choose_preferred_assignment: the frames it may return.
_choose_preferred_assignment(df) ==
    IF Len(df.rows) = 0 THEN {df}
    ELSE {[columns |-> df.columns, rows |-> drop_duplicates_first(rows)] :
            rows \in sorted_by_method_priority(df.rows)}

E_KEEP == << "vendor", "scope_floc_key", "event_type", "event_effective_date" >>

\* a.merge(e, on=["vendor", "scope_floc_key"], how="left"): every row of a,
\* in order, once for each row of e with the same (vendor, key), in the order
\* of e, and once with nulls when e has no such row.
merge_left(a, e) ==
    LET in_e(c) == c \in SeqToSet(e.columns)
        e_keep == SelectSeq(E_KEEP, in_e)
        joined(c) == c \notin {"vendor", "scope_floc_key"}
        extra == SelectSeq(e_keep, joined)
        match(r) == {j \in 1..Len(e.rows) : same_vendor_key(e.rows[j], r)}
        pairs == {<<i, j>> \in (1..Len(a.rows)) \X (0..Len(e.rows)) :
                     IF match(a.rows[i]) = {} THEN j = 0 ELSE j \in match(a.rows[i])}
        earlier(q, p) == q[1] < p[1] \/ (q[1] = p[1] /\ q[2] < p[2])
        nth(n) == CHOOSE p \in pairs : Cardinality({q \in pairs : earlier(q, p)}) = n - 1
        cell(p, c) ==
            IF c \in SeqToSet(a.columns) THEN a.rows[p[1]][c]
            ELSE IF p[2] = 0 THEN NaN
            ELSE e.rows[p[2]][c]
    IN  [columns |-> a.columns \o extra,
         rows |-> [n \in 1..Cardinality(pairs) |->
                      [c \in SeqToSet(a.columns \o extra) |-> cell(nth(n), c)]]]

\* Mutant: a removal is applied to DRONE rows only.
applied_row_removal_spares_helo(r) ==
    LET type == astype_string(r["event_type"])
        method == r["assignment_method"]
        is_removal == fillna(type, Str(<< >>)) = Str(REMOVAL) /\ method = Str(DRONE)
        is_move == fillna(type, Str(<< >>)) = Str(MOVE_TO_HELO)
        no_evt == isna(type) \/ type = Str(<< >>)
        active == IF is_move /\ method = Str(HELO) THEN True
                  ELSE IF is_move /\ method = Str(DRONE) THEN False
                  ELSE IF is_removal THEN False
                  ELSE astype_boolean(r["base_is_active"])
        status == IF no_evt /\ active = False THEN Str(INACTIVE)
                  ELSE IF no_evt /\ method = Str(DRONE) /\ active = True THEN Str(ACTIVE_DRONE)
                  ELSE IF no_evt /\ method = Str(HELO) /\ active = True THEN Str(ACTIVE_HELO)
                  ELSE IF is_move /\ method = Str(DRONE) THEN Str(MOVED_TO_HELO)
                  ELSE IF is_move /\ method = Str(HELO) THEN Str(ACTIVE_HELO)
                  ELSE IF is_removal THEN Str(REMOVED)
                  ELSE NA
    IN  [latest_event_type |-> type,
         latest_event_effective_date |-> to_datetime(r["event_effective_date"]),
         is_active_assignment |-> active,
         assignment_status |-> status]

\* Mutant: a move_to_helo leaves the activity of a DRONE row at its base.
applied_row_move_keeps_base(r) ==
    LET type == astype_string(r["event_type"])
        method == r["assignment_method"]
        is_removal == fillna(type, Str(<< >>)) = Str(REMOVAL)
        is_move == fillna(type, Str(<< >>)) = Str(MOVE_TO_HELO)
        no_evt == isna(type) \/ type = Str(<< >>)
        active == IF is_move /\ method = Str(HELO) THEN True
                  ELSE IF is_move /\ method = Str(DRONE) THEN astype_boolean(r["base_is_active"])
                  ELSE IF is_removal THEN False
                  ELSE astype_boolean(r["base_is_active"])
        status == IF no_evt /\ active = False THEN Str(INACTIVE)
                  ELSE IF no_evt /\ method = Str(DRONE) /\ active = True THEN Str(ACTIVE_DRONE)
                  ELSE IF no_evt /\ method = Str(HELO) /\ active = True THEN Str(ACTIVE_HELO)
                  ELSE IF is_move /\ method = Str(DRONE) THEN Str(MOVED_TO_HELO)
                  ELSE IF is_move /\ method = Str(HELO) THEN Str(ACTIVE_HELO)
                  ELSE IF is_removal THEN Str(REMOVED)
                  ELSE NA
    IN  [latest_event_type |-> type,
         latest_event_effective_date |-> to_datetime(r["event_effective_date"]),
         is_active_assignment |-> active,
         assignment_status |-> status]

\* The status columns of one joined row, in the order the code assigns them.
applied_row(r) ==
    LET type == astype_string(r["event_type"])
        method == r["assignment_method"]
        is_removal == fillna(type, Str(<< >>)) = Str(REMOVAL)
        is_move == fillna(type, Str(<< >>)) = Str(MOVE_TO_HELO)
        no_evt == isna(type) \/ type = Str(<< >>)
        active == IF is_move /\ method = Str(HELO) THEN True
                  ELSE IF is_move /\ method = Str(DRONE) THEN False
                  ELSE IF is_removal THEN False
                  ELSE astype_boolean(r["base_is_active"])
        status == IF no_evt /\ active = False THEN Str(INACTIVE)
                  ELSE IF no_evt /\ method = Str(DRONE) /\ active = True THEN Str(ACTIVE_DRONE)
                  ELSE IF no_evt /\ method = Str(HELO) /\ active = True THEN Str(ACTIVE_HELO)
                  ELSE IF is_move /\ method = Str(DRONE) THEN Str(MOVED_TO_HELO)
                  ELSE IF is_move /\ method = Str(HELO) THEN Str(ACTIVE_HELO)
                  ELSE IF is_removal THEN Str(REMOVED)
                  ELSE NA
    IN  [latest_event_type |-> type,
         latest_event_effective_date |-> to_datetime(r["event_effective_date"]),
         is_active_assignment |-> active,
         assignment_status |-> status]

APPLIED_COLUMNS ==
    << "latest_event_type", "latest_event_effective_date",
       "is_active_assignment", "assignment_status" >>

_apply_events_to_assignments(assignments, latest_events) ==
    IF Len(assignments.rows) = 0 THEN assignments
    ELSE LET a == IF Len(latest_events.rows) > 0
                  THEN merge_left(assignments, latest_events)
                  ELSE with_constant(with_constant(assignments, "event_type", NA),
                                     "event_effective_date", NA)
         IN  [columns |-> a.columns \o APPLIED_COLUMNS,
              rows |-> [i \in 1..Len(a.rows) |->
                           [c \in SeqToSet(a.columns \o APPLIED_COLUMNS) |->
                               IF c \in SeqToSet(APPLIED_COLUMNS)
                               THEN applied_row(a.rows[i])[c]
                               ELSE a.rows[i][c]]]]

EmptyFrame == [columns |-> << >>, rows |-> << >>]

GOLD_DIST_DATASET == "scope_assignment_current_distribution"

\* The frames list of _build_gold_for_asset_class concatenated: DRONE first,
\* then HELO, a missing or empty frame being skipped.
all_assignments(drone_found, drone, helo_found, helo, vendor) ==
    LET d == _prep_assignment_frame(drone, DRONE, vendor, DISTRIBUTION, DRONE_DIST_DATASET)
        h == _prep_assignment_frame(helo, HELO, vendor, DISTRIBUTION, HELO_DIST_DATASET)
        use_d == drone_found /\ Len(drone.rows) > 0
        use_h == helo_found /\ Len(helo.rows) > 0
    IN  IF use_d /\ use_h THEN concat(d, h)
        ELSE IF use_d THEN d
        ELSE IF use_h THEN h
        ELSE EmptyFrame

\* out["gold_run_date"], out["gold_run_id"], on a non-empty frame only.
with_run_metadata(out, parts) ==
    IF Len(out.rows) = 0 THEN out
    ELSE with_constant(with_constant(out, "gold_run_date", Str(parts.run_date)),
                       "gold_run_id", Str(parts.run_id))

\* _build_gold_for_asset_class for Distribution and one vendor.
BuildGoldForAssetClass ==
    /\ gold_pc = "call"
    /\ LET use_d == gold_in.drone_found /\ Len(gold_in.drone.rows) > 0
           use_h == gold_in.helo_found /\ Len(gold_in.helo.rows) > 0
       IN  IF \/ use_d /\ required_column_missing(gold_in.drone)
              \/ use_h /\ required_column_missing(gold_in.helo)
           THEN /\ gold_pc' = "raised"
                /\ UNCHANGED <<gold_in, gold_out, gold_files>>
           ELSE LET all_assign == all_assignments(gold_in.drone_found, gold_in.drone,
                                                  gold_in.helo_found, gold_in.helo,
                                                  gold_in.vendor)
                IN  \E preferred \in _choose_preferred_assignment(all_assign) :
                      LET out == with_run_metadata(
                                    _apply_events_to_assignments(preferred,
                                                                 gold_in.latest_events),
                                    gold_in.run_partitions)
                      IN  /\ gold_out' = [all_assign |-> all_assign,
                                          preferred |-> preferred,
                                          out |-> out]
                          /\ gold_files' =
                                {[dir |-> local_dir("gold", GOLD_DIST_DATASET, "HISTORY",
                                                    gold_in.run_partitions),
                                  basename |-> "data", df |-> out],
                                 [dir |-> local_dir("gold", GOLD_DIST_DATASET, "CURRENT",
                                                    << >>),
                                  basename |-> "data", df |-> out]}
                          /\ gold_pc' = "returned"
                          /\ UNCHANGED gold_in

\* Rows in one silver CURRENT frame.
MaxAssignRows == 1

\* Events in the log behind latest_events.
MaxGoldEvents == 2

DRONE_LINE_COLUMNS ==
    << "floc", "scope_id", "scope_removal_date", "is_active", "scope_floc_key", "vendor" >>
HELO_LINE_COLUMNS ==
    << "floc", "scope_id", "is_active", "scope_floc_key", "vendor" >>

\* A silver line row as the silverize steps build it: scope_floc_key is
\* scope_id + "|" + floc, is_active says that there is no removal date.
LineRow(columns, floc, removal) ==
    [c \in SeqToSet(columns) |->
        CASE c = "floc" -> floc
          [] c = "scope_id" -> Str(S1)
          [] c = "scope_removal_date" -> removal
          [] c = "is_active" -> IF isna(removal) THEN True ELSE False
          [] c = "scope_floc_key" -> str_add(Str(S1 \o PIPE), floc)
          [] c = "vendor" -> Str(V1)]

\* The DRONE lines keep a row without FLOC (its key is null); the HELO
\* lines drop it.
DroneLines ==
    { [columns |-> DRONE_LINE_COLUMNS, rows |-> rows] :
      rows \in UNION {[1..n -> {LineRow(DRONE_LINE_COLUMNS, f, d) :
                                   f \in {Str(L1), Str(L2), NA}, d \in {NA, Str(DATE1)}}] :
                      n \in 0..MaxAssignRows} }

HeloLines ==
    { [columns |-> HELO_LINE_COLUMNS, rows |-> rows] :
      rows \in UNION {[1..n -> {LineRow(HELO_LINE_COLUMNS, f, NA) :
                                   f \in {Str(L1), Str(L2)}}] :
                      n \in 0..MaxAssignRows} }

\* The logs of one day and batch; an event may also carry the unlisted type.
GoldEventLogs ==
    LET day == {e \in EventUniverse :
                   /\ e["event_effective_date"] = Str(DATE1)
                   /\ e["run_date"] = Str(D1)
                   /\ e["run_id"] = Str(R1)}
        events == day \cup {[e EXCEPT !["event_type"] = Str(TRANSFER)] : e \in day}
    IN  { [columns |-> EVENT_COLUMNS, rows |-> rows] :
          rows \in UNION {[1..n -> events] : n \in 0..MaxGoldEvents} }

InitGold ==
    /\ \E events \in {[events_history_rows_total |-> Len(log.rows),
                        latest_events |-> _collapse_latest_events(log)] :
                       log \in GoldEventLogs},
          drone \in DroneLines, helo \in HeloLines,
          drone_found \in BOOLEAN, helo_found \in BOOLEAN :
          /\ drone_found \/ drone = [columns |-> DRONE_LINE_COLUMNS, rows |-> << >>]
          /\ helo_found \/ helo = [columns |-> HELO_LINE_COLUMNS, rows |-> << >>]
          /\ gold_in = [drone_found |-> drone_found, drone |-> drone,
                        helo_found |-> helo_found, helo |-> helo,
                        vendor |-> V1,
                        events_history_rows_total |-> events.events_history_rows_total,
                        latest_events |-> events.latest_events,
                        run_partitions |-> [run_date |-> D2, run_id |-> R2]]
    /\ gold_pc = "call"
    /\ gold_out = << >>
    /\ gold_files = {}
    /\ DeltaIdle
    /\ HashIdle
    /\ CollapseIdle
    /\ EligIdle
    /\ KeyedIdle
    /\ RunsIdle

NextGold ==
    BuildGoldForAssetClass /\ UNCHANGED <<delta_vars, hash_vars, collapse_vars, elig_vars, keyed_vars, run_vars>>

SpecGold == InitGold /\ [][NextGold]_vars

----------------------------------------------------------------------------
(* etl_007_invoice_eligibility_builder: evidence preparation               *)
(* A label the code only assigns and compares (a bucket, a reason) is a    *)
(* text of one token.                                                      *)

EZ_POLE == << "E", "Z", "_", "P", "O", "L", "E" >>

\* A number in a frame.
Int64(n) == [k |-> "int", n |-> n]

\* A Python bool in a frame.
Bool(b) == IF b THEN True ELSE False

\* s.astype("string").str.strip()
_clean_str_series(v) == str_strip(astype_string(v))

\* _safe_int of one value: blank, null and non-numeric text count 0.
_safe_int(v) ==
    LET s2 == IF v.k = "int" THEN v ELSE _clean_str_series(v)
        numeric(t) == Len(t) > 0 /\ \A i \in 1..Len(t) : IsDigit(t[i])
        RECURSIVE value(_)
        value(t) == IF t = << >> THEN 0
                    ELSE 10 * value(SubSeq(t, 1, Len(t) - 1))
                         + (CodePoint(t[Len(t)]) - CodePoint("0"))
    IN  IF s2.k = "int" THEN s2.n
        ELSE IF isna(s2) \/ ~numeric(s2.s) THEN 0
        ELSE value(s2.s)

\* df[c] = _clean_str_series(df[c]) for the columns of cols that df has.
clean_columns(df, cols) ==
    [columns |-> df.columns,
     rows |-> [i \in 1..Len(df.rows) |->
                  [c \in DOMAIN df.rows[i] |->
                      IF c \in cols THEN _clean_str_series(df.rows[i][c])
                      ELSE df.rows[i][c]]]]

\* Mutant: only the first key column is compared.
same_on_first_key(r1, r2, on) == na_equal(r1[on[1]], r2[on[1]])

\* Two rows agree on the merge keys; null keys match each other.
same_on(r1, r2, on) == \A c \in SeqToSet(on) : na_equal(r1[c], r2[c])

\* left.merge(right, on=on, how="left"): every row of left, in order, once
\* for each row of right with the same key (null keys match each other), in
\* the order of right, and once with nulls when right has no such row.  The
\* frames merged here share no column besides the key.
left_merge(left, right, on) ==
    LET key == SeqToSet(on)
        added(c) == c \notin key
        extra == SelectSeq(right.columns, added)
        match(r) == {j \in 1..Len(right.rows) : same_on(right.rows[j], r, on)}
        pairs == {<<i, j>> \in (1..Len(left.rows)) \X (0..Len(right.rows)) :
                     IF match(left.rows[i]) = {} THEN j = 0
                     ELSE j \in match(left.rows[i])}
        earlier(q, p) == q[1] < p[1] \/ (q[1] = p[1] /\ q[2] < p[2])
        nth(n) == CHOOSE p \in pairs : Cardinality({q \in pairs : earlier(q, p)}) = n - 1
        cell(p, c) ==
            IF c \in SeqToSet(left.columns) THEN left.rows[p[1]][c]
            ELSE IF p[2] = 0 THEN NaN
            ELSE right.rows[p[2]][c]
    IN  [columns |-> left.columns \o extra,
         rows |-> [n \in 1..Cardinality(pairs) |->
                      [c \in SeqToSet(left.columns \o extra) |-> cell(nth(n), c)]]]

\* build_deliveries_agg over a frame with the columns vendor, scope_id, floc,
\* scope_floc_key, folder, image_count: one row per (vendor, key), null keys
\* forming a group (dropna=False), in the sorted order of the keys.
build_deliveries_agg(df_gcp, min_images) ==
    LET df == clean_columns(df_gcp, {"vendor", "scope_id", "floc", "scope_floc_key", "folder"})
        n == Len(df.rows)
        members(i) == {j \in 1..n : same_vendor_key(df.rows[i], df.rows[j])}
        firsts == {i \in 1..n : \A j \in 1..(i - 1) : j \notin members(i)}
        RECURSIVE total(_)
        total(js) == IF js = {} THEN 0
                     ELSE LET j == CHOOSE x \in js : TRUE
                          IN  _safe_int(df.rows[j]["image_count"]) + total(js \ {j})
        folders(i) == {df.rows[j]["folder"] :
                          j \in {x \in members(i) : ~isna(df.rows[x]["folder"])}}
        first(i, c) == LET filled == {j \in members(i) : ~isna(df.rows[j][c])}
                       IN  IF filled = {} THEN NA
                           ELSE df.rows[CHOOSE j \in filled : \A x \in filled : j <= x][c]
        less(x, y) == ~isna(x) /\ (isna(y) \/ StrLess(x.s, y.s))
        before(i, j) ==
            \/ less(df.rows[i]["vendor"], df.rows[j]["vendor"])
            \/ /\ na_equal(df.rows[i]["vendor"], df.rows[j]["vendor"])
               /\ less(df.rows[i]["scope_floc_key"], df.rows[j]["scope_floc_key"])
        nth(p) == CHOOSE i \in firsts : Cardinality({j \in firsts : before(j, i)}) = p - 1
        group(i) ==
            [vendor |-> df.rows[i]["vendor"],
             scope_floc_key |-> df.rows[i]["scope_floc_key"],
             floc_any |-> first(i, "floc"),
             scope_id_any |-> first(i, "scope_id"),
             folder_count |-> Int64(Cardinality(folders(i))),
             image_count_total |-> Int64(total(members(i))),
             has_gcp_delivery |-> Bool(total(members(i)) > 0),
             has_min_images |-> Bool(total(members(i)) >= min_images)]
    IN  [columns |-> << "vendor", "scope_floc_key", "floc_any", "scope_id_any",
                        "folder_count", "image_count_total", "has_gcp_delivery",
                        "has_min_images" >>,
         rows |-> [p \in 1..Cardinality(firsts) |-> group(nth(p))]]

AZURE_COLUMNS == << "floc", "has_any_mdoc", "has_aerial_mdoc", "has_ground_mdoc" >>

\* Mutant: the rows of a repeated floc are all kept.
standardize_azure_floc_keep_all(df_az_floc) ==
    LET has(c) == c \in SeqToSet(df_az_floc.columns)
        clean(r) ==
            [c \in SeqToSet(AZURE_COLUMNS) |->
                IF c = "floc" THEN _clean_str_series(r["floc"])
                ELSE IF has(c) THEN astype_boolean(fillna(r[c], False))
                ELSE False]
    IN  [columns |-> AZURE_COLUMNS,
         rows |-> [i \in 1..Len(df_az_floc.rows) |-> clean(df_az_floc.rows[i])]]

\* standardize_azure_floc over a frame with the column floc and no optional
\* diagnostic column: one row per floc, the first one.
standardize_azure_floc(df_az_floc) ==
    LET has(c) == c \in SeqToSet(df_az_floc.columns)
        clean(r) ==
            [c \in SeqToSet(AZURE_COLUMNS) |->
                IF c = "floc" THEN _clean_str_series(r["floc"])
                ELSE IF has(c) THEN astype_boolean(fillna(r[c], False))
                ELSE False]
        rows == [i \in 1..Len(df_az_floc.rows) |-> clean(df_az_floc.rows[i])]
    IN  [columns |-> AZURE_COLUMNS,
         rows |-> rows_at(rows, {i \in 1..Len(rows) :
                                    \A j \in 1..(i - 1) :
                                        ~na_equal(rows[j]["floc"], rows[i]["floc"])})]

\* _standardize_floc_attributes_dim over a frame with the columns floc and
\* object_type (no null object_type): per floc the row of the highest rank,
\* the first of them, in the sorted order of the flocs.
_standardize_floc_attributes_dim(df_dim) ==
    LET has_voltage == "voltage" \in SeqToSet(df_dim.columns)
        voltage(r) ==
            IF ~has_voltage THEN NA
            ELSE IF _clean_str_series(r["voltage"]) = Str(<< >>) THEN NA
            ELSE _clean_str_series(r["voltage"])
        rows == [i \in 1..Len(df_dim.rows) |->
                    [floc |-> _clean_str_series(df_dim.rows[i]["floc"]),
                     object_type |-> _clean_str_series(df_dim.rows[i]["object_type"]),
                     voltage |-> voltage(df_dim.rows[i])]]
        rank_obj(x) ==
            IF x = Str(EZ_POLE) THEN 4
            ELSE IF x = Str(<< "E", "T", "_", "T", "O", "W", "E", "R" >>) THEN 3
            ELSE IF x = Str(<< "E", "T", "_", "P", "O", "L", "E" >>) THEN 2
            ELSE IF x = Str(<< "E", "D", "_", "P", "O", "L", "E" >>) THEN 1
            ELSE 0
        n == Len(rows)
        less(x, y) == ~isna(x) /\ (isna(y) \/ StrLess(x.s, y.s))
        before(i, j) ==
            \/ less(rows[i]["floc"], rows[j]["floc"])
            \/ /\ na_equal(rows[i]["floc"], rows[j]["floc"])
               /\ \/ rank_obj(rows[i]["object_type"]) > rank_obj(rows[j]["object_type"])
                  \/ /\ rank_obj(rows[i]["object_type"]) = rank_obj(rows[j]["object_type"])
                     /\ i < j
        sorted == [p \in 1..n |->
                      rows[CHOOSE i \in 1..n : Cardinality({j \in 1..n : before(j, i)}) = p - 1]]
    IN  [columns |-> << "floc", "object_type", "voltage" >>,
         rows |-> rows_at(sorted, {i \in 1..n :
                                      \A j \in 1..(i - 1) :
                                          ~na_equal(sorted[j]["floc"], sorted[i]["floc"])})]

----------------------------------------------------------------------------
(* etl_007_invoice_eligibility_builder: the evaluators of                  *)
(* eligibility_rules.py (which pipeline.py imports) and                    *)
(* eligibility_rules2.py; rules names the module.                          *)

\* Mutant: the reasons are joined from the flags that are not set.
_join_reasons_of_unset(rules, row, cols) ==
    LET counted(c) == c \in DOMAIN row /\ row[c] = False
        RECURSIVE join(_)
        join(t) == IF Len(t) = 0 THEN << >>
                   ELSE IF Len(t) = 1 THEN << t[1] >>
                   ELSE << t[1], ";" >> \o join(Tail(t))
    IN  Str(join(SelectSeq(cols, counted)))

\* _join_reasons: ";".join of the names of the flags that are set.  In
\* eligibility_rules a flag is tested with bool(), which raises TypeError on
\* pd.NA; in eligibility_rules2 only a literal True counts.
_join_reasons(rules, row, cols) ==
    LET counted(c) == c \in DOMAIN row /\ row[c] = True
        ambiguous(c) == c \in DOMAIN row /\ isna(row[c])
        RECURSIVE join(_)
        join(t) == IF Len(t) = 0 THEN << >>
                   ELSE IF Len(t) = 1 THEN << t[1] >>
                   ELSE << t[1], ";" >> \o join(Tail(t))
    IN  IF rules = "eligibility_rules" /\ \E i \in 1..Len(cols) : ambiguous(cols[i])
        THEN [k |-> "TypeError", s |-> << >>]
        ELSE Str(join(SelectSeq(cols, counted)))

\* The program bucket of a distribution row: the assignments to
\* program_bucket in their order, the last matching one winning.
program_bucket(rules, is_comp, is_helo, is_drone) ==
    IF rules = "eligibility_rules2"
    THEN IF is_comp THEN "DIST_COMP"
         ELSE IF is_drone THEN "DIST_DRONE"
         ELSE IF is_helo THEN "DIST_HELO"
         ELSE "DIST_OTHER"
    ELSE IF is_drone THEN "DIST_DRONE"
         ELSE IF is_helo THEN "DIST_HELO"
         ELSE IF is_comp THEN "DIST_COMP"
         ELSE "DIST_OTHER"

\* Mutant: the threshold is compared the wrong way round.
meets_images_reversed(req_images, image_count_total, min_images) ==
    ~req_images \/ image_count_total <= min_images

\* df["meets_images"]
meets_images(req_images, image_count_total, min_images) ==
    ~req_images \/ image_count_total >= min_images

\* The keep list of an evaluator.
keep_columns(rules, asset_class) ==
    LET v2 == rules = "eligibility_rules2"
    IN  << "asset_class", "program_bucket" >>
        \o (IF v2 THEN << "program_acronym", "billing_bucket", "is_work_complete",
                          "is_billable" >>
            ELSE << >>)
        \o << "vendor", "scope_id", "floc", "scope_floc_key" >>
        \o (IF v2 THEN << "object_type", "voltage" >> ELSE << >>)
        \o << "assignment_method", "assignment_status", "is_active_assignment",
              "image_count_total", "folder_count" >>
        \o (IF asset_class = "distribution"
            THEN << "has_aerial_mdoc", "has_ground_mdoc", "has_any_mdoc",
                    "azure_join_method" >>
            ELSE << >>)
        \o << "approved_to_invoice", "block_reasons", "needs_review",
              "eligibility_run_date", "eligibility_run_id",
              "eligibility_source_system" >>

\* The columns compute_distribution_eligibility sets on one joined row r.
distribution_row(rules, r, min_images, run, source_system) ==
    LET v2 == rules = "eligibility_rules2"
        has(c) == c \in DOMAIN r
        is(c, t) == has(c) /\ r[c] = Str(t)
        count(c) == IF has(c) /\ r[c].k = "int" THEN r[c].n ELSE 0
        flag(c) == has(c) /\ astype_boolean(fillna(r[c], False)) = True
        active == IF has("is_active_assignment") THEN flag("is_active_assignment") ELSE TRUE
        bucket == program_bucket(rules, is("scope_id", COMP),
                                 is("assignment_status", ACTIVE_HELO),
                                 is("assignment_status", ACTIVE_DRONE))
        req_images == bucket \in {"DIST_DRONE", "DIST_HELO"}
        req_aerial_mdoc == bucket = "DIST_DRONE"
        req_ground_mdoc == bucket \in {"DIST_DRONE", "DIST_COMP"}
        image_count_total == count("image_count_total")
        meets_aerial_mdoc == ~req_aerial_mdoc \/ flag("has_aerial_mdoc")
        meets_ground_mdoc == ~req_ground_mdoc \/ flag("has_ground_mdoc")
        meets_all_requirements ==
            /\ meets_images(req_images, image_count_total, min_images)
            /\ meets_aerial_mdoc
            /\ meets_ground_mdoc
        program_acronym ==
            CASE bucket = "DIST_DRONE" -> "D360"
              [] bucket = "DIST_COMP" -> "ODI"
              [] bucket = "DIST_HELO" -> "HELO"
              [] OTHER -> bucket
        ez_mask == /\ has("object_type")
                   /\ str_strip(fillna(astype_string(r["object_type"]), Str(<< >>)))
                         = Str(EZ_POLE)
        is_billable == active /\ program_acronym # "DIST_OTHER" /\ ~ez_mask
        approved == IF v2 THEN meets_all_requirements /\ is_billable
                    ELSE active /\ meets_all_requirements
        blockers ==
            [BLOCK_INACTIVE_ASSIGNMENT |-> Bool(~active),
             BLOCK_MISSING_GCP_MIN_IMAGES |->
                 Bool(req_images /\ image_count_total < min_images),
             BLOCK_MISSING_AERIAL_MDOC |-> Bool(req_aerial_mdoc /\ ~flag("has_aerial_mdoc")),
             BLOCK_MISSING_GROUND_MDOC |-> Bool(req_ground_mdoc /\ ~flag("has_ground_mdoc")),
             BLOCK_EZ_POLE_DIST_NOT_BILLABLE |-> Bool(ez_mask)]
        blocker_cols ==
            << "BLOCK_INACTIVE_ASSIGNMENT", "BLOCK_MISSING_GCP_MIN_IMAGES",
               "BLOCK_MISSING_AERIAL_MDOC", "BLOCK_MISSING_GROUND_MDOC" >>
            \o (IF v2 THEN << "BLOCK_EZ_POLE_DIST_NOT_BILLABLE" >> ELSE << >>)
        common ==
            [asset_class |-> Str(<< "distribution" >>),
             program_bucket |-> Str(<< bucket >>),
             is_active_assignment |-> Bool(active),
             image_count_total |-> Int64(image_count_total),
             folder_count |-> IF v2 \/ ~has("folder_count") THEN Int64(count("folder_count"))
                              ELSE r["folder_count"],
             has_min_images |-> Bool(flag("has_min_images")),
             has_gcp_delivery |-> Bool(flag("has_gcp_delivery")),
             has_any_mdoc |-> Bool(flag("has_any_mdoc")),
             has_aerial_mdoc |-> Bool(flag("has_aerial_mdoc")),
             has_ground_mdoc |-> Bool(flag("has_ground_mdoc")),
             azure_join_method |-> Str(<< "FLOC_ONLY" >>),
             approved_to_invoice |-> Bool(approved),
             block_reasons |-> _join_reasons(rules, blockers, blocker_cols),
             needs_review |-> Bool(~approved),
             eligibility_run_date |-> Str(run.run_date),
             eligibility_run_id |-> Str(run.run_id),
             eligibility_source_system |-> Str(source_system)]
        billing ==
            [program_acronym |-> Str(<< program_acronym >>),
             billing_bucket |-> Str(<< IF ez_mask THEN "NON_BILLABLE" ELSE program_acronym >>),
             is_work_complete |-> Bool(meets_all_requirements),
             is_billable |-> Bool(is_billable)]
    IN  IF v2 THEN common @@ billing ELSE common

\* The columns compute_transmission_eligibility sets on one joined row r.
transmission_row(rules, r, min_images, run, source_system) ==
    LET v2 == rules = "eligibility_rules2"
        has(c) == c \in DOMAIN r
        count(c) == IF has(c) /\ r[c].k = "int" THEN r[c].n ELSE 0
        flag(c) == has(c) /\ astype_boolean(fillna(r[c], False)) = True
        active == IF has("is_active_assignment") THEN flag("is_active_assignment") ELSE TRUE
        image_count_total == count("image_count_total")
        meets_all_requirements == meets_images(TRUE, image_count_total, min_images)
        approved == IF v2 THEN meets_all_requirements /\ active
                    ELSE active /\ meets_all_requirements
        blockers ==
            [BLOCK_INACTIVE_ASSIGNMENT |-> Bool(~active),
             BLOCK_MISSING_GCP_MIN_IMAGES |-> Bool(image_count_total < min_images)]
        common ==
            [asset_class |-> Str(<< "transmission" >>),
             program_bucket |-> Str(<< "TRANS" >>),
             is_active_assignment |-> Bool(active),
             image_count_total |-> Int64(image_count_total),
             folder_count |-> IF v2 \/ ~has("folder_count") THEN Int64(count("folder_count"))
                              ELSE r["folder_count"],
             approved_to_invoice |-> Bool(approved),
             block_reasons |->
                 _join_reasons(rules, blockers,
                               << "BLOCK_INACTIVE_ASSIGNMENT",
                                  "BLOCK_MISSING_GCP_MIN_IMAGES" >>),
             needs_review |-> Bool(~approved),
             eligibility_run_date |-> Str(run.run_date),
             eligibility_run_id |-> Str(run.run_id),
             eligibility_source_system |-> Str(source_system)]
        billing ==
            [program_acronym |-> Str(<< "ATI" >>),
             billing_bucket |-> Str(<< "ATI" >>),
             is_work_complete |-> Bool(meets_all_requirements),
             is_billable |-> Bool(active)]
    IN  IF v2 THEN common @@ billing ELSE common

\* The frame an evaluator returns: the rows with the computed columns set,
\* cut to the columns of the keep list that exist.
kept_frame(rules, asset_class, joined, computed) ==
    LET blank == [run_date |-> << >>, run_id |-> << >>]
        names == SeqToSet(joined.columns)
                 \cup DOMAIN (IF asset_class = "distribution"
                              THEN distribution_row(rules, << >>, 0, blank, << >>)
                              ELSE transmission_row(rules, << >>, 0, blank, << >>))
        frame(exists) ==
            LET kept(c) == c \in exists
                keep == SelectSeq(keep_columns(rules, asset_class), kept)
                row(r, set) == [c \in SeqToSet(keep) |->
                                   IF c \in DOMAIN set THEN set[c] ELSE r[c]]
            IN  [columns |-> keep,
                 rows |-> [i \in 1..Len(joined.rows) |->
                              row(joined.rows[i], computed[i])]]
    IN  frame(names)

compute_distribution_eligibility(rules, scope_current, deliveries_agg, azure_floc, min_images, run, source_system) ==
    LET cleaned == clean_columns(scope_current,
                       {"vendor", "scope_id", "floc", "scope_floc_key", "assignment_status"}
                       \cup (IF rules = "eligibility_rules2"
                                             THEN {"assignment_method"} ELSE {}))
        joined == left_merge(left_merge(cleaned, deliveries_agg,
                                        << "vendor", "scope_floc_key" >>),
                             azure_floc, << "floc" >>)
    IN  kept_frame(rules, "distribution", joined,
                   [i \in 1..Len(joined.rows) |->
                       distribution_row(rules, joined.rows[i], min_images, run,
                                        source_system)])

compute_transmission_eligibility(rules, scope_current, deliveries_agg, min_images, run, source_system) ==
    LET cleaned == clean_columns(scope_current,
                       {"vendor", "scope_id", "floc", "scope_floc_key", "assignment_status"}
                       \cup (IF rules = "eligibility_rules2"
                                             THEN {"assignment_method"} ELSE {}))
        joined == left_merge(cleaned, deliveries_agg, << "vendor", "scope_floc_key" >>)
    IN  kept_frame(rules, "transmission", joined,
                   [i \in 1..Len(joined.rows) |->
                       transmission_row(rules, joined.rows[i], min_images, run,
                                        source_system)])

\* Mutant: the anti-join compares the vendor only.
build_unmatched_gcp_by_vendor(assignments, deliveries_agg, asset_class, run, source_system) ==
    LET a == clean_columns(assignments, {"vendor", "scope_floc_key", "scope_id", "floc"})
        d == clean_columns(deliveries_agg, {"vendor", "scope_floc_key", "scope_id", "floc"})
        left_only(r) == \A i \in 1..Len(a.rows) : ~same_on(a.rows[i], r, << "vendor" >>)
        out(r) == [asset_class |-> Str(<< asset_class >>),
                   vendor |-> r["vendor"],
                   scope_id |-> r["scope_id_any"],
                   floc |-> r["floc_any"],
                   scope_floc_key |-> r["scope_floc_key"],
                   image_count_total |-> r["image_count_total"],
                   folder_count |-> r["folder_count"],
                   has_gcp_delivery |-> r["has_gcp_delivery"],
                   has_min_images |-> r["has_min_images"],
                   unmatched_reason |-> Str(<< "VENDOR_SCOPE_KEY_NOT_IN_ASSIGNMENTS" >>),
                   eligibility_run_date |-> Str(run.run_date),
                   eligibility_run_id |-> Str(run.run_id),
                   eligibility_source_system |-> Str(source_system)]
        kept == SelectSeq(d.rows, left_only)
    IN  [columns |-> << "asset_class", "vendor", "scope_id", "floc", "scope_floc_key",
                        "image_count_total", "folder_count", "has_gcp_delivery",
                        "has_min_images", "unmatched_reason", "eligibility_run_date",
                        "eligibility_run_id", "eligibility_source_system" >>,
         rows |-> [i \in 1..Len(kept) |-> out(kept[i])]]

\* build_unmatched_gcp: the rows of the delivery aggregate whose (vendor,
\* scope_floc_key) is found in no assignment row (merge with indicator, the
\* left_only rows), the keys of both sides trimmed; floc_any and scope_id_any
\* renamed, the reason and the lineage added, the preferred columns first.
build_unmatched_gcp(assignments, deliveries_agg, asset_class, run, source_system) ==
    LET a == clean_columns(assignments, {"vendor", "scope_floc_key", "scope_id", "floc"})
        d == clean_columns(deliveries_agg, {"vendor", "scope_floc_key", "scope_id", "floc"})
        left_only(r) ==
            \A i \in 1..Len(a.rows) : ~same_on(a.rows[i], r, << "vendor", "scope_floc_key" >>)
        out(r) == [asset_class |-> Str(<< asset_class >>),
                   vendor |-> r["vendor"],
                   scope_id |-> r["scope_id_any"],
                   floc |-> r["floc_any"],
                   scope_floc_key |-> r["scope_floc_key"],
                   image_count_total |-> r["image_count_total"],
                   folder_count |-> r["folder_count"],
                   has_gcp_delivery |-> r["has_gcp_delivery"],
                   has_min_images |-> r["has_min_images"],
                   unmatched_reason |-> Str(<< "VENDOR_SCOPE_KEY_NOT_IN_ASSIGNMENTS" >>),
                   eligibility_run_date |-> Str(run.run_date),
                   eligibility_run_id |-> Str(run.run_id),
                   eligibility_source_system |-> Str(source_system)]
        kept == SelectSeq(d.rows, left_only)
    IN  [columns |-> << "asset_class", "vendor", "scope_id", "floc", "scope_floc_key",
                        "image_count_total", "folder_count", "has_gcp_delivery",
                        "has_min_images", "unmatched_reason", "eligibility_run_date",
                        "eligibility_run_id", "eligibility_source_system" >>,
         rows |-> [i \in 1..Len(kept) |-> out(kept[i])]]

\* build_unmatched_azure: the rows of the standardized document roll-up whose
\* floc is found in no distribution assignment, the flocs of both sides
\* trimmed; the asset class, the reason and the lineage added.
build_unmatched_azure(assignments_dist, azure_floc, run, source_system) ==
    LET a == clean_columns(assignments_dist, {"floc"})
        z == clean_columns(azure_floc, {"floc"})
        left_only(r) == \A i \in 1..Len(a.rows) : ~same_on(a.rows[i], r, << "floc" >>)
        out(r) == [asset_class |-> Str(<< "distribution" >>),
                   floc |-> r["floc"],
                   has_any_mdoc |-> r["has_any_mdoc"],
                   has_ground_mdoc |-> r["has_ground_mdoc"],
                   has_aerial_mdoc |-> r["has_aerial_mdoc"],
                   unmatched_reason |-> Str(<< "FLOC_NOT_IN_DISTRIBUTION_ASSIGNMENTS" >>),
                   eligibility_run_date |-> Str(run.run_date),
                   eligibility_run_id |-> Str(run.run_id),
                   eligibility_source_system |-> Str(source_system)]
        kept == SelectSeq(z.rows, left_only)
    IN  [columns |-> << "asset_class", "floc", "has_any_mdoc", "has_ground_mdoc",
                        "has_aerial_mdoc", "unmatched_reason", "eligibility_run_date",
                        "eligibility_run_id", "eligibility_source_system" >>,
         rows |-> [i \in 1..Len(kept) |-> out(kept[i])]]

----------------------------------------------------------------------------
(* etl_007_invoice_eligibility_builder: run_pipeline                       *)

MaxScopeRows == 1
MaxBatches == 2

\* The thresholds run.py passes on: --min-images is any int.
MinImageChoices == {0, 1, 3}

\* The current assignments of FLOC L1: a scope or the COMP sentinel; a
\* HELO, a DRONE, a removed unit, one without status or activity, or an
\* active one without status (the gold row of an event of an unlisted
\* type).  The keys of a frame differ, as in the gold table.
ScopeFrames ==
    LET state == {<< Str(HELO), Str(ACTIVE_HELO), True >>,
                  << Str(DRONE), Str(ACTIVE_DRONE), True >>,
                  << Str(DRONE), Str(REMOVED), False >>,
                  << Str(DRONE), NA, NA >>,
                  << Str(DRONE), NA, True >>}
        row(scope, st) ==
            [vendor |-> Str(V1), floc |-> Str(L1), scope_id |-> Str(scope),
             scope_floc_key |-> Str(scope \o PIPE \o L1),
             assignment_method |-> st[1], assignment_status |-> st[2],
             is_active_assignment |-> st[3]]
        universe == {row(scope, st) : scope \in {S1, COMP}, st \in state}
    IN  { [columns |-> << "vendor", "floc", "scope_id", "scope_floc_key",
                          "assignment_method", "assignment_status",
                          "is_active_assignment" >>,
           rows |-> rows] :
          rows \in {t \in UNION {[1..n -> universe] : n \in 0..MaxScopeRows} :
                       \A i, j \in 1..Len(t) :
                           i # j => t[i]["scope_floc_key"] # t[j]["scope_floc_key"]} }

\* The delivery batches of one unit of L1: the first n of three batches
\* with the image counts 1, 2 and a blank.
DeliveryLogs ==
    LET batch(scope, i) ==
            [vendor |-> Str(V1), scope_id |-> Str(scope), floc |-> Str(L1),
             scope_floc_key |-> Str(scope \o PIPE \o L1),
             folder |-> Str(<< "f", << "1", "2", "3" >>[i] >>),
             image_count |-> Str(<< << "1" >>, << "2" >>, << >> >>[i])]
    IN  { [columns |-> << "vendor", "scope_id", "floc", "scope_floc_key", "folder",
                          "image_count" >>,
           rows |-> [i \in 1..n |-> batch(scope, i)]] :
          scope \in {S1, COMP}, n \in 0..MaxBatches }

\* The document roll-up: nothing, or one row of L1.
AzureRollups ==
    { [columns |-> AZURE_COLUMNS, rows |-> << >>] }
    \cup { [columns |-> AZURE_COLUMNS,
            rows |-> << [floc |-> Str(L1), has_any_mdoc |-> f[1],
                         has_aerial_mdoc |-> f[1], has_ground_mdoc |-> f[2]] >>] :
           f \in {<< True, True >>, << True, False >>, << False, True >>, << NA, NA >>} }

\* The attributes of L1: unknown, an excluded pole or another pole.
FlocDims ==
    { [columns |-> << "floc", "object_type" >>, rows |-> << >>] }
    \cup { [columns |-> << "floc", "object_type" >>,
            rows |-> << [floc |-> Str(L1), object_type |-> Str(t)] >>] :
           t \in {EZ_POLE, << "E", "D", "_", "P", "O", "L", "E" >>} }

\* run_pipeline up to the unified line table: the attributes merged onto the
\* assignments, the evidence prepared, both asset classes evaluated.
ComputeEligibility ==
    /\ elig_pc = "call"
    /\ LET in == elig_in
           run == [run_date |-> D2, run_id |-> R2]
           df_floc_dim == _standardize_floc_attributes_dim(in.df_floc_dim)
           df_scope_dist == left_merge(clean_columns(in.df_scope_dist, {"floc"}),
                                       df_floc_dim, << "floc" >>)
           df_scope_trans == left_merge(clean_columns(in.df_scope_trans, {"floc"}),
                                        df_floc_dim, << "floc" >>)
           deliveries_dist == build_deliveries_agg(in.df_gcp_dist, in.min_images)
           deliveries_trans == build_deliveries_agg(in.df_gcp_trans, in.min_images)
           az_floc == standardize_azure_floc(in.df_az_floc)
           out_dist == compute_distribution_eligibility(
                           in.rules, df_scope_dist, deliveries_dist, az_floc,
                           in.min_images, run, << "INTERNAL" >>)
           out_trans == compute_transmission_eligibility(
                            in.rules, df_scope_trans, deliveries_trans,
                            in.min_images, run, << "INTERNAL" >>)
           unmatched_gcp_dist == build_unmatched_gcp(df_scope_dist, deliveries_dist,
                                                     "distribution", run, << "INTERNAL" >>)
           unmatched_gcp_trans == build_unmatched_gcp(df_scope_trans, deliveries_trans,
                                                      "transmission", run, << "INTERNAL" >>)
           unmatched_az_dist == build_unmatched_azure(df_scope_dist, az_floc, run,
                                                      << "INTERNAL" >>)
       IN  elig_out' = [df_scope_dist |-> df_scope_dist,
                        df_scope_trans |-> df_scope_trans,
                        deliveries_dist |-> deliveries_dist,
                        deliveries_trans |-> deliveries_trans,
                        az_floc |-> az_floc,
                        unmatched_gcp_dist |-> unmatched_gcp_dist,
                        unmatched_gcp_trans |-> unmatched_gcp_trans,
                        unmatched_az_dist |-> unmatched_az_dist,
                        out_line |-> concat(out_dist, out_trans)]
    /\ elig_pc' = "returned"
    /\ UNCHANGED <<elig_in, elig_prev>>

\* The builder is run again over the same inputs with a higher --min-images;
\* the earlier line table is kept for comparison.
RaiseMinImages ==
    /\ elig_pc = "returned"
    /\ elig_prev = << >>
    /\ \E m \in MinImageChoices :
          /\ m > elig_in.min_images
          /\ elig_in' = [elig_in EXCEPT !.min_images = m]
    /\ elig_prev' = [min_images |-> elig_in.min_images, out_line |-> elig_out.out_line]
    /\ elig_pc' = "call"
    /\ elig_out' = << >>

\* One asset class has assignments and deliveries, the other has none.
InitElig ==
    /\ \E rules \in {"eligibility_rules", "eligibility_rules2"},
          asset_class \in {"distribution", "transmission"},
          df_scope \in ScopeFrames, df_gcp \in DeliveryLogs,
          df_az_floc \in AzureRollups, df_floc_dim \in FlocDims,
          min_images \in MinImageChoices :
          LET none(df) == [columns |-> df.columns, rows |-> << >>]
              dist == asset_class = "distribution"
          IN  /\ dist \/ df_az_floc.rows = << >>
              /\ elig_in = [rules |-> rules,
                            df_scope_dist |-> IF dist THEN df_scope ELSE none(df_scope),
                            df_scope_trans |-> IF dist THEN none(df_scope) ELSE df_scope,
                            df_gcp_dist |-> IF dist THEN df_gcp ELSE none(df_gcp),
                            df_gcp_trans |-> IF dist THEN none(df_gcp) ELSE df_gcp,
                            df_az_floc |-> df_az_floc,
                            df_floc_dim |-> df_floc_dim,
                            min_images |-> min_images]
    /\ elig_pc = "call"
    /\ elig_out = << >>
    /\ elig_prev = << >>
    /\ DeltaIdle
    /\ HashIdle
    /\ CollapseIdle
    /\ GoldIdle
    /\ KeyedIdle
    /\ RunsIdle

NextElig ==
    \/ ComputeEligibility /\ UNCHANGED <<delta_vars, hash_vars, collapse_vars, gold_vars, keyed_vars, run_vars>>
    \/ RaiseMinImages /\ UNCHANGED <<delta_vars, hash_vars, collapse_vars, gold_vars, keyed_vars, run_vars>>

SpecElig == InitElig /\ [][NextElig]_vars

MaxAssigned == 2
MaxEvidence == 2

\* Evidence with repeated and with foreign keys.  The assignments are up to
\* MaxAssigned active DRONE units with different keys out of S1|L1, S1|L2 and
\* COMP|L1.  One of the three evidence tables is any sequence of up to
\* MaxEvidence rows of its universe: two rows of L1 whose keys agree once
\* trimmed, and a row of L2; each of the other two is empty or holds the two
\* rows of L1.  One asset class has the data, the other has none; the
\* document roll-up belongs to distribution.
InitEvidence ==
    /\ \E rules \in {"eligibility_rules", "eligibility_rules2"},
          asset_class \in {"distribution", "transmission"},
          varied \in {"gcp", "azure", "dim"} :
          LET unit(k) ==
                  [vendor |-> Str(V1), floc |-> Str(k[2]), scope_id |-> Str(k[1]),
                   scope_floc_key |-> Str(k[1] \o PIPE \o k[2]),
                   assignment_method |-> Str(DRONE),
                   assignment_status |-> Str(ACTIVE_DRONE),
                   is_active_assignment |-> True]
              units == {unit(k) : k \in {<< S1, L1 >>, << S1, L2 >>, << COMP, L1 >>}}
              batch(k) ==
                  [vendor |-> Str(V1), scope_id |-> Str(S1), floc |-> Str(k[1]),
                   scope_floc_key |-> Str(S1 \o PIPE \o k[1] \o k[2]),
                   folder |-> Str(<< "f" >> \o k[3]), image_count |-> Str(k[3])]
              gcp == << batch(<< L1, << >>, << "1" >> >>),
                        batch(<< L1, << " " >>, << "2" >> >>),
                        batch(<< L2, << >>, << "3" >> >>) >>
              doc(k) == [floc |-> Str(k[1]), has_any_mdoc |-> True,
                         has_aerial_mdoc |-> k[2], has_ground_mdoc |-> k[3]]
              azure == << doc(<< L1, True, True >>),
                          doc(<< L1 \o << " " >>, True, False >>),
                          doc(<< L2, False, True >>) >>
              attr(k) == [floc |-> Str(k[1]), object_type |-> Str(k[2])]
              dim == << attr(<< L1, << "E", "D", "_", "P", "O", "L", "E" >> >>),
                        attr(<< L1 \o << " " >>, EZ_POLE >>),
                        attr(<< L2, EZ_POLE >>) >>
              tables(name, u) ==
                  IF varied = name
                  THEN UNION {[1..n -> SeqToSet(u)] : n \in 0..MaxEvidence}
                  ELSE {<< >>, << u[1], u[2] >>}
              none(df) == [columns |-> df.columns, rows |-> << >>]
              dist == asset_class = "distribution"
          IN  \E assigned \in {t \in UNION {[1..n -> units] : n \in 0..MaxAssigned} :
                                   \A i, j \in 1..Len(t) :
                                       i # j => t[i]["scope_floc_key"] # t[j]["scope_floc_key"]},
                 gcp_rows \in tables("gcp", gcp),
                 azure_rows \in tables("azure", azure),
                 dim_rows \in tables("dim", dim) :
                 LET df_scope == [columns |-> << "vendor", "floc", "scope_id",
                                                "scope_floc_key", "assignment_method",
                                                "assignment_status",
                                                "is_active_assignment" >>,
                                  rows |-> assigned]
                     df_gcp == [columns |-> << "vendor", "scope_id", "floc",
                                              "scope_floc_key", "folder", "image_count" >>,
                                rows |-> gcp_rows]
                 IN  /\ dist \/ (varied # "azure" /\ azure_rows = << >>)
                     /\ elig_in = [rules |-> rules,
                                   df_scope_dist |-> IF dist THEN df_scope ELSE none(df_scope),
                                   df_scope_trans |-> IF dist THEN none(df_scope) ELSE df_scope,
                                   df_gcp_dist |-> IF dist THEN df_gcp ELSE none(df_gcp),
                                   df_gcp_trans |-> IF dist THEN none(df_gcp) ELSE df_gcp,
                                   df_az_floc |-> [columns |-> AZURE_COLUMNS,
                                                   rows |-> azure_rows],
                                   df_floc_dim |-> [columns |-> << "floc", "object_type" >>,
                                                    rows |-> dim_rows],
                                   min_images |-> 3]
    /\ elig_pc = "call"
    /\ elig_out = << >>
    /\ elig_prev = << >>
    /\ DeltaIdle
    /\ HashIdle
    /\ CollapseIdle
    /\ GoldIdle
    /\ KeyedIdle
    /\ RunsIdle

SpecEvidence ==
    InitEvidence
    /\ [][ComputeEligibility /\ UNCHANGED <<delta_vars, hash_vars, collapse_vars, gold_vars, keyed_vars, run_vars>>]_vars

----------------------------------------------------------------------------
(* Claims about the snapshot differ (SpecDelta) *)

\* compute_key_delta compared two snapshots and wrote the change-set.
DeltaWritten == delta_pc = "returned" /\ delta_ret.prev_dir # NoDir

StoredAt(d) == (CHOOSE e \in fs : e.dir = d).df
CurrentRaw == StoredAt(current_history_dir(run_partitions))
PreviousRaw == StoredAt(delta_ret.prev_dir)
CurrentKeyed == _distribution_keyed(CurrentRaw)
PreviousKeyed == _distribution_keyed(PreviousRaw)

PartRows(name) ==
    (CHOOSE f \in delta_files :
        f.dir = delta_out_dir(run_partitions) /\ f.basename = name).df.rows

RowsOfKey(rows, k) == {i \in 1..Len(rows) : rows[i]["_key"] = k}
KeysOf(rows) == {rows[i]["_key"] : i \in 1..Len(rows)}
Untagged(r) == [c \in (DOMAIN r) \ {"_delta_type"} |-> r[c]]
ActiveRow(r) == r["_is_active"]
OnlyRow(df, k) == df.rows[CHOOSE i \in 1..Len(df.rows) : df.rows[i]["_key"] = k]

\* C1: with unique keys in both snapshots, every key of previous and current
\* is emitted at most once over added, removed and updated together (so the
\* three key sets are pairwise disjoint) and nothing else is emitted.
C1_EveryKeyInOnePart ==
    DeltaWritten =>
        LET all == KeySet(CurrentKeyed) \cup KeySet(PreviousKeyed)
            added == PartRows("added")
            removed == PartRows("removed")
            updated == PartRows("updated")
            emitted(k) == Cardinality(RowsOfKey(added, k))
                          + Cardinality(RowsOfKey(removed, k))
                          + Cardinality(RowsOfKey(updated, k))
        IN  /\ \A k \in all : emitted(k) <= 1
            /\ KeysOf(added) \cup KeysOf(removed) \cup KeysOf(updated) \subseteq all
            /\ KeysOf(added) \cap KeysOf(removed) = {}
            /\ KeysOf(added) \cap KeysOf(updated) = {}
            /\ KeysOf(removed) \cap KeysOf(updated) = {}

\* A diff whose three parts each hold a row.
C1_Witness ==
    /\ DeltaWritten
    /\ Len(PartRows("added")) > 0
    /\ Len(PartRows("removed")) > 0
    /\ Len(PartRows("updated")) > 0

\* C2: a key of both snapshots, inactive in previous and active in current,
\* is in added tagged reactivated, never tagged added_new, never in updated.
C2_ReactivatedIsAdded ==
    DeltaWritten =>
        LET cur == CurrentKeyed
            prev == PreviousKeyed
            added == PartRows("added")
        IN  \A k \in KeySet(cur) \cap KeySet(prev) :
                (~ActiveRow(OnlyRow(prev, k)) /\ ActiveRow(OnlyRow(cur, k)))
                => /\ \E i \in RowsOfKey(added, k) :
                         added[i]["_delta_type"] = "reactivated"
                   /\ \A i \in RowsOfKey(added, k) :
                         added[i]["_delta_type"] # "added_new"
                   /\ k \notin KeysOf(PartRows("updated"))

C2_Witness ==
    /\ DeltaWritten
    /\ \E k \in KeySet(CurrentKeyed) \cap KeySet(PreviousKeyed) :
          /\ ~ActiveRow(OnlyRow(PreviousKeyed, k))
          /\ ActiveRow(OnlyRow(CurrentKeyed, k))
          /\ \E i \in RowsOfKey(PartRows("added"), k) :
                PartRows("added")[i]["_delta_type"] = "reactivated"

\* C3: removed holds exactly (a) the previous row, tagged
\* removed_missing_in_current, of every key active in previous and absent
\* from current and (b) the current row, tagged removed_soft, of every key
\* active in previous and inactive in current.
C3_RemovedRows ==
    DeltaWritten =>
        LET cur == CurrentKeyed
            prev == PreviousKeyed
            missing == {k \in KeySet(prev) \ KeySet(cur) : ActiveRow(OnlyRow(prev, k))}
            soft == {k \in KeySet(prev) \cap KeySet(cur) :
                        ActiveRow(OnlyRow(prev, k)) /\ ~ActiveRow(OnlyRow(cur, k))}
            rem == PartRows("removed")
        IN  /\ KeysOf(rem) = missing \cup soft
            /\ \A i \in 1..Len(rem) :
                  IF rem[i]["_key"] \in missing
                  THEN /\ rem[i]["_delta_type"] = "removed_missing_in_current"
                       /\ Untagged(rem[i]) = OnlyRow(prev, rem[i]["_key"])
                  ELSE /\ rem[i]["_delta_type"] = "removed_soft"
                       /\ Untagged(rem[i]) = OnlyRow(cur, rem[i]["_key"])

C3_Witness ==
    /\ DeltaWritten
    /\ \E i \in 1..Len(PartRows("removed")) :
          PartRows("removed")[i]["_delta_type"] = "removed_soft"
    /\ \E i \in 1..Len(PartRows("removed")) :
          PartRows("removed")[i]["_delta_type"] = "removed_missing_in_current"

\* The columns of a sheet that hold the scope id, the location id and the
\* removal date.
KeyAndRemovalColumns(df) ==
    {_first_existing_col(df, SCOPE_CANDIDATES), _first_existing_col(df, FLOC_CANDIDATES),
     _first_existing_col(df, REMOVAL_CANDIDATES_DIST)}

\* C4: a key is in updated exactly when it is in both snapshots, active in
\* both, and its two rows differ in a shared column that is neither a key
\* column nor the removal-date column.
C4_UpdatedIffAttributeDiffers ==
    DeltaWritten =>
        LET cur == CurrentKeyed
            prev == PreviousKeyed
            attrs == (SeqToSet(CurrentRaw.columns) \cap SeqToSet(PreviousRaw.columns))
                     \ (KeyAndRemovalColumns(CurrentRaw) \cup KeyAndRemovalColumns(PreviousRaw))
        IN  \A k \in KeySet(cur) \cup KeySet(prev) :
                (k \in KeysOf(PartRows("updated")))
                <=> /\ k \in KeySet(cur) \cap KeySet(prev)
                    /\ ActiveRow(OnlyRow(cur, k))
                    /\ ActiveRow(OnlyRow(prev, k))
                    /\ \E c \in attrs : OnlyRow(cur, k)[c] # OnlyRow(prev, k)[c]

\* A snapshot of an earlier run is stored.
EarlierStored == \E e \in fs : e.dir = earlier_history_dir
EarlierRaw == StoredAt(earlier_history_dir)

DuplicatesPresent ==
    \/ LET cur == CurrentKeyed IN has_duplicate_keys(cur)
    \/ (EarlierStored /\ LET prev == _distribution_keyed(EarlierRaw)
                         IN  has_duplicate_keys(prev))

\* The frame _ensure_unique_keys rejects: current is checked first.
OffendingFrame ==
    LET cur == CurrentKeyed
    IN  IF has_duplicate_keys(cur) THEN cur ELSE _distribution_keyed(EarlierRaw)

OnlyOwnSnapshot == \A e \in fs : e.dir = current_history_dir(run_partitions)

\* C6: with no snapshot of another run, the call returns (it does not
\* raise) the skip metrics and writes no change-set file.
C6_FirstRunSkips ==
    (delta_pc # "call" /\ OnlyOwnSnapshot) =>
        /\ delta_pc = "returned"
        /\ delta_err = NoError
        /\ delta_ret.metrics.delta_previous_found = FALSE
        /\ delta_ret.metrics.added_rows = 0
        /\ delta_ret.metrics.removed_rows = 0
        /\ delta_ret.metrics.updated_rows = 0
        /\ delta_ret.metrics.note = "No prior snapshot found; delta skipped."
        /\ delta_ret.prev_dir = NoDir
        /\ delta_files = {}

C6_Witness ==
    /\ delta_pc = "returned"
    /\ OnlyOwnSnapshot
    /\ Len(CurrentRaw.rows) > 0
    /\ delta_ret.metrics.delta_previous_found = FALSE

----------------------------------------------------------------------------
(* Claims about the row signatures (SpecHash) *)

\* Two cells hold the same value: both are missing, or they are equal.
SameValue(x, y) == (isna(x) /\ isna(y)) \/ x = y

SameRow(r1, r2) ==
    /\ DOMAIN r1 = DOMAIN r2
    /\ \A c \in DOMAIN r1 : SameValue(r1[c], r2[c])

\* C7: rows holding the same values get the same signature whatever the
\* column order of their frames and whichever marker (None, NaN, NA) stands
\* for a missing value; and when the previous and the current snapshot hold
\* the same rows in a different column order, updated is empty.
C7_SignatureIgnoresOrderAndNullKind ==
    /\ hash_pc = "hashed" =>
          \A i \in 1..Len(hash_in.a.rows), j \in 1..Len(hash_in.b.rows) :
              SameRow(hash_in.a.rows[i], hash_in.b.rows[j])
                  => hash_out.a[i] = hash_out.b[j]
    /\ (/\ delta_pc = "returned"
        /\ Len(hash_in.a.rows) = Len(hash_in.b.rows)
        /\ \A i \in 1..Len(hash_in.a.rows) :
              SameRow(hash_in.a.rows[i], hash_in.b.rows[i]))
          => PartRows("updated") = << >>

\* A row with None in one frame and NaN in a frame of another column order
\* has been hashed and compared.
C7_Witness ==
    /\ hash_pc = "hashed"
    /\ delta_pc = "returned"
    /\ hash_in.a.columns # hash_in.b.columns
    /\ Len(hash_in.a.rows) = 1
    /\ Len(hash_in.b.rows) = 1
    /\ hash_in.a.rows[1]["Circuit"] = None
    /\ hash_in.b.rows[1]["Circuit"] = NaN
    /\ hash_in.a.rows[1]["FLOC"] = hash_in.b.rows[1]["FLOC"]
    /\ hash_out.a[1] = hash_out.b[1]
    /\ PartRows("updated") = << >>

\* The string form of a cell, a missing value being "".
Rendered(v) == fillna(astype_string(v), Str(<< >>)).s

\* C8: two rows over the same columns whose values differ in some column
\* (as strings, a missing value being the empty string) get different
\* signatures.
C8_DifferentRowsDifferentSignatures ==
    hash_pc = "hashed" =>
        \A i \in 1..Len(hash_in.a.rows), j \in 1..Len(hash_in.b.rows) :
            (\E c \in SeqToSet(HASH_COLUMNS) :
                Rendered(hash_in.a.rows[i][c]) # Rendered(hash_in.b.rows[j][c]))
            => hash_out.a[i] # hash_out.b[j]

----------------------------------------------------------------------------
(* Claims about the event collapse (SpecCollapse) *)

\* The documented order on one component of the tuple: a null is lowest.
NullLowestLeq(x, y) ==
    \/ isna(x)
    \/ ~isna(x) /\ ~isna(y) /\ (x.s = y.s \/ StrLess(x.s, y.s))

NullLowestEq(x, y) == NullLowestLeq(x, y) /\ NullLowestLeq(y, x)

\* move_to_helo = 2 > removal = 1 > unknown = 0
DocumentedPriority(t) ==
    IF t = Str(MOVE_TO_HELO) THEN 2 ELSE IF t = Str(REMOVAL) THEN 1 ELSE 0

\* (effective date, run date, priority, run id) of a is at most that of b.
TupleLeq(a, b) ==
    LET ea == a["event_effective_date"]
        eb == b["event_effective_date"]
    IN  \/ ~NullLowestLeq(eb, ea)
        \/ /\ NullLowestEq(ea, eb)
           /\ \/ ~NullLowestLeq(b["run_date"], a["run_date"])
              \/ /\ NullLowestEq(a["run_date"], b["run_date"])
                 /\ \/ DocumentedPriority(a["event_type"]) < DocumentedPriority(b["event_type"])
                    \/ /\ DocumentedPriority(a["event_type"]) = DocumentedPriority(b["event_type"])
                       /\ NullLowestLeq(a["run_id"], b["run_id"])

\* The events of the log as the result shows them: strings as strings, the
\* effective date parsed.
LoggedEvent(i) ==
    [c \in SeqToSet(EVENT_COLUMNS) |->
        IF c = "event_effective_date" THEN to_datetime(events_in.rows[i][c])
        ELSE astype_string(events_in.rows[i][c])]

SameEntity(a, b) ==
    a["vendor"] = b["vendor"] /\ a["scope_floc_key"] = b["scope_floc_key"]

\* C9: for a non-empty log the result has exactly one row for every
\* (vendor, key) of the log and no other row; the row is one of the key's
\* events and no event of the key has a greater (effective date, run date,
\* priority, run id) tuple; a removal is never kept over a move_to_helo of
\* the same key, effective date and batch.
C9_CollapseKeepsMaximum ==
    (collapse_pc = "returned" /\ Len(events_in.rows) > 0) =>
        LET n == Len(events_in.rows)
            out == collapse_out.rows
        IN  /\ \A i \in 1..n :
                  Cardinality({p \in 1..Len(out) : SameEntity(out[p], LoggedEvent(i))}) = 1
            /\ \A p \in 1..Len(out) :
                  /\ \E i \in 1..n : out[p] = LoggedEvent(i)
                  /\ \A j \in 1..n :
                        SameEntity(LoggedEvent(j), out[p]) => TupleLeq(LoggedEvent(j), out[p])
            /\ \A i \in 1..n, j \in 1..n :
                  (/\ SameEntity(LoggedEvent(i), LoggedEvent(j))
                   /\ LoggedEvent(i)["event_type"] = Str(REMOVAL)
                   /\ LoggedEvent(j)["event_type"] = Str(MOVE_TO_HELO)
                   /\ LoggedEvent(i)["event_effective_date"] = LoggedEvent(j)["event_effective_date"]
                   /\ LoggedEvent(i)["run_date"] = LoggedEvent(j)["run_date"]
                   /\ LoggedEvent(i)["run_id"] = LoggedEvent(j)["run_id"])
                  => \A p \in 1..Len(out) : out[p] # LoggedEvent(i)

\* The log holds a removal and then a move_to_helo of one key, dated the
\* same day in the same batch; the move_to_helo is kept.
C9_Witness ==
    /\ collapse_pc = "returned"
    /\ Len(events_in.rows) = 2
    /\ SameEntity(LoggedEvent(1), LoggedEvent(2))
    /\ LoggedEvent(1)["event_type"] = Str(REMOVAL)
    /\ LoggedEvent(2)["event_type"] = Str(MOVE_TO_HELO)
    /\ LoggedEvent(1)["event_effective_date"] = Str(DATE1)
    /\ LoggedEvent(2)["event_effective_date"] = Str(DATE1)
    /\ LoggedEvent(1)["run_date"] = LoggedEvent(2)["run_date"]
    /\ LoggedEvent(1)["run_id"] = LoggedEvent(2)["run_id"]
    /\ Len(collapse_out.rows) = 1
    /\ collapse_out.rows[1]["event_type"] = Str(MOVE_TO_HELO)

----------------------------------------------------------------------------
(* Claims about the assignment build (SpecGold) *)

\* The rows of a frame for one (vendor, key).
RowsFor(df, vendor, key) ==
    {i \in 1..Len(df.rows) :
        df.rows[i]["vendor"] = vendor /\ df.rows[i]["scope_floc_key"] = key}

\* C10: when the union of the prepared frames holds a DRONE row and a HELO
\* row of one (vendor, key), the preferred frame holds exactly one row for
\* it, and that row is, field by field, a HELO row of the union.
C10_HeloRowKept ==
    gold_pc = "returned" =>
        LET all == gold_out.all_assign
            pref == gold_out.preferred
        IN  \A i \in 1..Len(all.rows), j \in 1..Len(all.rows) :
                (/\ all.rows[i]["assignment_method"] = Str(DRONE)
                 /\ all.rows[j]["assignment_method"] = Str(HELO)
                 /\ all.rows[i]["vendor"] = all.rows[j]["vendor"]
                 /\ all.rows[i]["scope_floc_key"] = all.rows[j]["scope_floc_key"])
                => LET kept == RowsFor(pref, all.rows[j]["vendor"],
                                       all.rows[j]["scope_floc_key"])
                   IN  /\ Cardinality(kept) = 1
                       /\ \A p \in kept :
                             /\ pref.rows[p]["assignment_method"] = Str(HELO)
                             /\ pref.rows[p]["base_is_active"] = True
                             /\ pref.rows[p]["source_dataset"] = Str(HELO_DIST_DATASET)
                             /\ \E h \in 1..Len(all.rows) :
                                   /\ all.rows[h]["assignment_method"] = Str(HELO)
                                   /\ pref.rows[p] = all.rows[h]
                             /\ pref.rows[p] # all.rows[i]

\* An inactive DRONE row and a HELO row of the same key were united, and
\* the HELO row was kept.
C10_Witness ==
    /\ gold_pc = "returned"
    /\ Len(gold_out.all_assign.rows) = 2
    /\ gold_out.all_assign.rows[1]["assignment_method"] = Str(DRONE)
    /\ gold_out.all_assign.rows[1]["base_is_active"] = False
    /\ gold_out.all_assign.rows[2]["assignment_method"] = Str(HELO)
    /\ gold_out.all_assign.rows[1]["scope_floc_key"]
          = gold_out.all_assign.rows[2]["scope_floc_key"]
    /\ Len(gold_out.preferred.rows) = 1
    /\ gold_out.preferred.rows[1] = gold_out.all_assign.rows[2]

\* Two rows stand for the same (vendor, Unit Key); null keys count as one key.
SameUnit(r1, r2) == same_vendor_key(r1, r2)

\* C11: the assignment table built for one asset class has at most one row
\* per (vendor, Unit Key): the preferred frame has one row per key of the
\* union, and the table has exactly the rows of the preferred frame, in order.
C11_OneRowPerUnit ==
    gold_pc = "returned" =>
        LET all == gold_out.all_assign
            pref == gold_out.preferred
            out == gold_out.out
        IN  /\ \A i, j \in 1..Len(out.rows) :
                  SameUnit(out.rows[i], out.rows[j]) => i = j
            /\ \A i, j \in 1..Len(pref.rows) :
                  SameUnit(pref.rows[i], pref.rows[j]) => i = j
            /\ \A i \in 1..Len(all.rows) :
                  \E p \in 1..Len(pref.rows) : SameUnit(all.rows[i], pref.rows[p])
            /\ Len(out.rows) = Len(pref.rows)
            /\ \A p \in 1..Len(pref.rows) :
                  \A c \in DOMAIN pref.rows[p] : out.rows[p][c] = pref.rows[p][c]

\* A DRONE row and a HELO row of one key were united and the log held two
\* events of that key: the table holds one row, with the collapsed event.
C11_Witness ==
    /\ gold_pc = "returned"
    /\ Len(gold_out.all_assign.rows) = 2
    /\ SameUnit(gold_out.all_assign.rows[1], gold_out.all_assign.rows[2])
    /\ gold_in.events_history_rows_total = 2
    /\ Len(gold_in.latest_events.rows) = 1
    /\ SameUnit(gold_in.latest_events.rows[1], gold_out.all_assign.rows[1])
    /\ Len(gold_out.out.rows) = 1
    /\ gold_out.out.rows[1]["latest_event_type"] = Str(MOVE_TO_HELO)

\* The collapsed events of the (vendor, Unit Key) of row r.
EventsOf(r) ==
    {j \in 1..Len(gold_in.latest_events.rows) :
        SameUnit(gold_in.latest_events.rows[j], r)}

\* Row r of the (non-empty) assignment table has a collapsed event of type t.
LatestEventIs(r, t) ==
    \E j \in EventsOf(r) : gold_in.latest_events.rows[j]["event_type"] = Str(t)

\* C12: an assignment whose collapsed event is removal is inactive with
\* status REMOVED, whatever its method and its base_is_active.
C12_RemovalForcesRemoved ==
    gold_pc = "returned" =>
        \A i \in 1..Len(gold_out.out.rows) :
            LET r == gold_out.out.rows[i]
            IN  LatestEventIs(r, REMOVAL) =>
                    /\ r["latest_event_type"] = Str(REMOVAL)
                    /\ r["is_active_assignment"] = False
                    /\ r["assignment_status"] = Str(REMOVED)

\* An active HELO row whose collapsed event is a removal came out REMOVED.
C12_Witness ==
    /\ gold_pc = "returned"
    /\ \E i \in 1..Len(gold_out.out.rows) :
          LET r == gold_out.out.rows[i]
          IN  /\ LatestEventIs(r, REMOVAL)
              /\ r["assignment_method"] = Str(HELO)
              /\ r["base_is_active"] = True
              /\ r["is_active_assignment"] = False
              /\ r["assignment_status"] = Str(REMOVED)

\* C13: an assignment whose collapsed event is move_to_helo is active with
\* status ACTIVE_HELO when its method is HELO, and inactive with status
\* MOVED_TO_HELO when its method is DRONE, whatever its base_is_active.
C13_MoveToHelo ==
    gold_pc = "returned" =>
        \A i \in 1..Len(gold_out.out.rows) :
            LET r == gold_out.out.rows[i]
            IN  LatestEventIs(r, MOVE_TO_HELO) =>
                    /\ r["latest_event_type"] = Str(MOVE_TO_HELO)
                    /\ r["assignment_method"] \in {Str(HELO), Str(DRONE)}
                    /\ r["assignment_method"] = Str(HELO) =>
                          /\ r["is_active_assignment"] = True
                          /\ r["assignment_status"] = Str(ACTIVE_HELO)
                    /\ r["assignment_method"] = Str(DRONE) =>
                          /\ r["is_active_assignment"] = False
                          /\ r["assignment_status"] = Str(MOVED_TO_HELO)

\* An active DRONE row whose collapsed event is a move_to_helo came out
\* inactive with status MOVED_TO_HELO.
C13_Witness ==
    /\ gold_pc = "returned"
    /\ \E i \in 1..Len(gold_out.out.rows) :
          LET r == gold_out.out.rows[i]
          IN  /\ LatestEventIs(r, MOVE_TO_HELO)
              /\ r["assignment_method"] = Str(DRONE)
              /\ r["base_is_active"] = True
              /\ r["is_active_assignment"] = False
              /\ r["assignment_status"] = Str(MOVED_TO_HELO)

\* The is_active flags the DRONE lines give the (vendor, Unit Key) of row r.
DroneFlags(r) ==
    {gold_in.drone.rows[j]["is_active"] :
        j \in {k \in 1..Len(gold_in.drone.rows) : SameUnit(gold_in.drone.rows[k], r)}}

\* C14: an assignment without collapsed event (the log may be empty) keeps
\* its base state: is_active_assignment is base_is_active, which is True for
\* a HELO row and the is_active flag of the line for a DRONE row; the status
\* is ACTIVE_HELO or ACTIVE_DRONE when active and INACTIVE when not.
C14_NoEventKeepsBase ==
    gold_pc = "returned" =>
        \A i \in 1..Len(gold_out.out.rows) :
            LET r == gold_out.out.rows[i]
            IN  EventsOf(r) = {} =>
                    /\ isna(r["latest_event_type"])
                    /\ r["is_active_assignment"] = r["base_is_active"]
                    /\ r["assignment_method"] \in {Str(HELO), Str(DRONE)}
                    /\ r["assignment_method"] = Str(HELO) => r["base_is_active"] = True
                    /\ r["assignment_method"] = Str(DRONE) => r["base_is_active"] \in DroneFlags(r)
                    /\ r["assignment_status"] =
                          IF r["is_active_assignment"] = False THEN Str(INACTIVE)
                          ELSE IF r["assignment_method"] = Str(HELO) THEN Str(ACTIVE_HELO)
                          ELSE Str(ACTIVE_DRONE)

\* With an empty log, a DRONE row with a removal date came out INACTIVE.
C14_Witness ==
    /\ gold_pc = "returned"
    /\ gold_in.events_history_rows_total = 0
    /\ \E i \in 1..Len(gold_out.out.rows) :
          LET r == gold_out.out.rows[i]
          IN  /\ r["assignment_method"] = Str(DRONE)
              /\ r["base_is_active"] = False
              /\ r["is_active_assignment"] = False
              /\ r["assignment_status"] = Str(INACTIVE)


----------------------------------------------------------------------------
(* Claims about the invoice eligibility builder (SpecElig) *)

\* The rows of the unified line table of a finished run.
LineRows == IF elig_pc = "returned" THEN SeqToSet(elig_out.out_line.rows) ELSE {}

\* The reasons of a row, as the set of the names joined in block_reasons.
ReasonsOf(r) == {r["block_reasons"].s[i] : i \in 1..Len(r["block_reasons"].s)} \ {";"}

\* C16: in every row of the line table, distribution or transmission, an
\* approved row has the empty string as block_reasons and a row with
\* non-empty block_reasons is not approved, also when the activity or the
\* evidence of the row was null.
C16_ApprovedHasNoReasons ==
    \A r \in LineRows :
        /\ r["approved_to_invoice"] = True => r["block_reasons"] = Str(<< >>)
        /\ r["block_reasons"] # Str(<< >>) => r["approved_to_invoice"] = False

\* An approved HELO row whose document flags were null in the roll-up.
C16_Witness ==
    /\ elig_pc = "returned"
    /\ \E i \in 1..Len(elig_in.df_az_floc.rows) :
          isna(elig_in.df_az_floc.rows[i]["has_ground_mdoc"])
    /\ \E r \in LineRows :
          /\ r["approved_to_invoice"] = True
          /\ r["block_reasons"] = Str(<< >>)
          /\ r["program_bucket"] = Str(<< "DIST_HELO" >>)


\* The row is a distribution row of a FLOC that the attribute table gives
\* the excluded equipment type.
Excluded(r) ==
    /\ r["asset_class"] = Str(<< "distribution" >>)
    /\ \E i \in 1..Len(elig_in.df_floc_dim.rows) :
          /\ str_strip(elig_in.df_floc_dim.rows[i]["floc"]) = r["floc"]
          /\ str_strip(elig_in.df_floc_dim.rows[i]["object_type"]) = Str(EZ_POLE)

\* The requirements of the bucket of a row, each met when it does not apply
\* or its evidence is there, under the threshold m.
RequirementsMet(r, m) ==
    LET bucket == r["program_bucket"].s[1]
    IN  /\ bucket \in {"DIST_DRONE", "DIST_HELO", "TRANS"} => r["image_count_total"].n >= m
        /\ bucket = "DIST_DRONE" => r["has_aerial_mdoc"] = True
        /\ bucket \in {"DIST_DRONE", "DIST_COMP"} => r["has_ground_mdoc"] = True

\* C15: in both rule modules and for both asset classes a row is approved
\* exactly when it is an active assignment, every requirement of its bucket
\* is met, and it is billable: active, not in the bucket DIST_OTHER and not
\* of the excluded equipment type.
C15_ApprovedIffActiveMetBillable ==
    \A r \in LineRows :
        r["approved_to_invoice"] = True
        <=> /\ r["is_active_assignment"] = True
            /\ RequirementsMet(r, elig_in.min_images)
            /\ r["program_bucket"] # Str(<< "DIST_OTHER" >>)
            /\ ~Excluded(r)


\* The builder has been run twice over the same assignments and evidence,
\* the second time with a higher threshold.
RanWithHigherThreshold == elig_pc = "returned" /\ elig_prev # << >>

\* C17: for the same assignments and evidence and thresholds m1 <= m2,
\* every row approved under m2 is approved under m1, and a row of a bucket
\* that requires no images has the same decision under both.
C17_RaisingThresholdNeverApproves ==
    RanWithHigherThreshold =>
        LET lo == elig_prev.out_line.rows
            hi == elig_out.out_line.rows
        IN  /\ elig_prev.min_images <= elig_in.min_images
            /\ Len(lo) = Len(hi)
            /\ \A i \in 1..Len(hi) :
                  /\ lo[i]["scope_floc_key"] = hi[i]["scope_floc_key"]
                  /\ hi[i]["approved_to_invoice"] = True
                        => lo[i]["approved_to_invoice"] = True
                  /\ hi[i]["program_bucket"] \in {Str(<< "DIST_COMP" >>), Str(<< "DIST_OTHER" >>)}
                        => hi[i]["approved_to_invoice"] = lo[i]["approved_to_invoice"]

\* A row with one image, approved under the threshold 1 and blocked under
\* the threshold 3.
C17_Witness ==
    /\ RanWithHigherThreshold
    /\ elig_prev.min_images = 1
    /\ elig_in.min_images = 3
    /\ \E i \in 1..Len(elig_out.out_line.rows) :
          /\ elig_out.out_line.rows[i]["image_count_total"] = Int64(1)
          /\ elig_prev.out_line.rows[i]["approved_to_invoice"] = True
          /\ elig_out.out_line.rows[i]["approved_to_invoice"] = False


\* The aggregated deliveries of the asset class of a row hold no row for
\* its (vendor, key).
NoDelivery(r) ==
    LET agg == IF r["asset_class"] = Str(<< "distribution" >>)
               THEN elig_out.deliveries_dist ELSE elig_out.deliveries_trans
    IN  \A i \in 1..Len(agg.rows) :
            ~(/\ agg.rows[i]["vendor"] = r["vendor"]
              /\ agg.rows[i]["scope_floc_key"] = r["scope_floc_key"])

\* A distribution row whose FLOC the document roll-up does not hold.
NoDocument(r) ==
    /\ r["asset_class"] = Str(<< "distribution" >>)
    /\ \A i \in 1..Len(elig_out.az_floc.rows) : elig_out.az_floc.rows[i]["floc"] # r["floc"]

RequiresImages(r) ==
    r["program_bucket"] \in {Str(<< "DIST_DRONE" >>), Str(<< "DIST_HELO" >>), Str(<< "TRANS" >>)}

C19_CompSentinelWins ==
    \A r \in LineRows :
        (r["asset_class"] = Str(<< "distribution" >>) /\ r["scope_id"] = Str(COMP))
            => /\ r["program_bucket"] = Str(<< "DIST_COMP" >>)
               /\ ReasonsOf(r) \cap {"BLOCK_MISSING_GCP_MIN_IMAGES",
                                     "BLOCK_MISSING_AERIAL_MDOC"} = {}


\* The row has the column c and its value is v.
Has(r, c, v) == c \in DOMAIN r /\ r[c] = v

\* C20: every distribution row of the excluded equipment type EZ_POLE has
\* is_billable False, billing_bucket NON_BILLABLE and approved_to_invoice
\* False, whatever its bucket, activity and evidence, and carries the
\* reason BLOCK_EZ_POLE_DIST_NOT_BILLABLE.
C20_ExcludedTypeNeverBillable ==
    \A r \in LineRows :
        Excluded(r)
            => /\ Has(r, "is_billable", False)
               /\ Has(r, "billing_bucket", Str(<< "NON_BILLABLE" >>))
               /\ r["approved_to_invoice"] = False
               /\ "BLOCK_EZ_POLE_DIST_NOT_BILLABLE" \in ReasonsOf(r)


----------------------------------------------------------------------------
(* Further claims about the gold assignment table (SpecGold) *)

\* C28: every row that _apply_events_to_assignments puts out, for every
\* method, base activity and latest event (removal, move_to_helo, a type
\* that is not listed, none), has one of the five statuses, never null, and
\* is active exactly when the status is ACTIVE_HELO or ACTIVE_DRONE.
C28_StatusNeverNull ==
    gold_pc = "returned" =>
        \A i \in 1..Len(gold_out.out.rows) :
            LET r == gold_out.out.rows[i]
            IN  /\ r["assignment_status"] \in
                      {Str(ACTIVE_HELO), Str(ACTIVE_DRONE), Str(INACTIVE),
                       Str(REMOVED), Str(MOVED_TO_HELO)}
                /\ r["is_active_assignment"] = True
                      <=> r["assignment_status"] \in {Str(ACTIVE_HELO), Str(ACTIVE_DRONE)}

----------------------------------------------------------------------------
(* Further claims about the event collapse (SpecReorder) *)

\* What a collapse result selects: per (vendor, Unit Key) the event type
\* and the effective date.
Selected(df) ==
    {<< df.rows[i]["vendor"], df.rows[i]["scope_floc_key"],
        df.rows[i]["event_type"], df.rows[i]["event_effective_date"] >> :
     i \in 1..Len(df.rows)}

\* The event log with its rows in the order p.
Reordered(df, p) == [columns |-> df.columns, rows |-> [i \in 1..Len(df.rows) |-> df.rows[p[i]]]]

----------------------------------------------------------------------------
(* Further claims about the invoice eligibility builder (SpecElig) *)

\* C27: with the evaluators of eligibility_rules2, every row that is not
\* approved has a non-empty block_reasons.
C27_UnapprovedHasReason ==
    elig_in.rules = "eligibility_rules2" =>
        \A r \in LineRows :
            r["approved_to_invoice"] = False => r["block_reasons"] # Str(<< >>)


-----------------------------------------------------------------------------
(* Claims about evidence with repeated and foreign keys (SpecEvidence) *)

\* The rows of the line table of one asset class.
LinesOf(asset_class) == {r \in LineRows : r["asset_class"] = Str(<< asset_class >>)}

\* The eligibility join gave line r the delivery aggregate d.
JoinedToDelivery(r, d) ==
    /\ same_vendor_key(r, d)
    /\ r["image_count_total"] = d["image_count_total"]

\* The eligibility join gave line r the document evidence z.
JoinedToDocuments(r, z) ==
    /\ na_equal(r["floc"], z["floc"])
    /\ \A c \in {"has_any_mdoc", "has_aerial_mdoc", "has_ground_mdoc"} : r[c] = z[c]

\* The orphan rows reported for the delivery aggregate d / the documents z.
OrphansOfDelivery(unmatched, d) ==
    {j \in 1..Len(unmatched.rows) :
        /\ same_vendor_key(unmatched.rows[j], d)
        /\ \A c \in {"image_count_total", "folder_count", "has_gcp_delivery",
                     "has_min_images"} : unmatched.rows[j][c] = d[c]}

OrphansOfDocuments(unmatched, z) ==
    {j \in 1..Len(unmatched.rows) :
        \A c \in SeqToSet(AZURE_COLUMNS) : na_equal(unmatched.rows[j][c], z[c])}

\* C21: every row of the delivery aggregate of an asset class is either
\* joined to a line of that class or reported once by build_unmatched_gcp,
\* never both, and build_unmatched_gcp reports nothing else; the same for the
\* rows of the document roll-up, the distribution lines and
\* build_unmatched_azure.
C21_UnmatchedIsAntiJoin ==
    elig_pc = "returned" =>
        LET gcp(deliveries, unmatched, lines) ==
                /\ \A i \in 1..Len(deliveries.rows) :
                       LET d == deliveries.rows[i]
                           matched == \E r \in lines : JoinedToDelivery(r, d)
                       IN  Cardinality(OrphansOfDelivery(unmatched, d))
                               = IF matched THEN 0 ELSE 1
                /\ \A j \in 1..Len(unmatched.rows) :
                       \E i \in 1..Len(deliveries.rows) :
                           j \in OrphansOfDelivery(unmatched, deliveries.rows[i])
        IN  /\ gcp(elig_out.deliveries_dist, elig_out.unmatched_gcp_dist,
                   LinesOf("distribution"))
            /\ gcp(elig_out.deliveries_trans, elig_out.unmatched_gcp_trans,
                   LinesOf("transmission"))
            /\ \A i \in 1..Len(elig_out.az_floc.rows) :
                   LET z == elig_out.az_floc.rows[i]
                       matched == \E r \in LinesOf("distribution") : JoinedToDocuments(r, z)
                   IN  Cardinality(OrphansOfDocuments(elig_out.unmatched_az_dist, z))
                           = IF matched THEN 0 ELSE 1
            /\ \A j \in 1..Len(elig_out.unmatched_az_dist.rows) :
                   \E i \in 1..Len(elig_out.az_floc.rows) :
                       j \in OrphansOfDocuments(elig_out.unmatched_az_dist,
                                                elig_out.az_floc.rows[i])

\* A run with an orphan delivery aggregate, an orphan document row and a
\* document row that a distribution line was joined to.
C21_Witness ==
    /\ elig_pc = "returned"
    /\ Len(elig_out.unmatched_gcp_dist.rows) > 0
    /\ Len(elig_out.unmatched_az_dist.rows) > 0
    /\ \E i \in 1..Len(elig_out.az_floc.rows) :
           \E r \in LinesOf("distribution") :
               JoinedToDocuments(r, elig_out.az_floc.rows[i])


\* C24: the line table holds one record per assignment row, in the order of
\* the assignments, the distribution rows first: the joins to the delivery
\* aggregate, to the document roll-up and to the attribute dimension neither
\* drop nor repeat an assignment, also when the evidence repeats a key.
C24_OneRecordPerAssignment ==
    elig_pc = "returned" =>
        LET lines == elig_out.out_line.rows
            dist == elig_in.df_scope_dist.rows
            trans == elig_in.df_scope_trans.rows
        IN  /\ Len(lines) = Len(dist) + Len(trans)
            /\ \A i \in 1..Len(dist) :
                   /\ lines[i]["asset_class"] = Str(<< "distribution" >>)
                   /\ same_vendor_key(lines[i], dist[i])
            /\ \A i \in 1..Len(trans) :
                   /\ lines[Len(dist) + i]["asset_class"] = Str(<< "transmission" >>)
                   /\ same_vendor_key(lines[Len(dist) + i], trans[i])

\* Two distribution assignments were evaluated against deliveries,
\* documents and attributes that each held two rows of one key.
C24_Witness ==
    /\ elig_pc = "returned"
    /\ Len(elig_in.df_scope_dist.rows) = 2
    /\ Len(elig_in.df_gcp_dist.rows) = 2 /\ Len(elig_out.deliveries_dist.rows) = 1
    /\ Len(elig_in.df_az_floc.rows) = 2 /\ Len(elig_out.az_floc.rows) = 1
    /\ Len(elig_in.df_floc_dim.rows) = 2
    /\ \E r \in LinesOf("distribution") :
           /\ r["image_count_total"] = Int64(3)
           /\ r["has_any_mdoc"] = True


-----------------------------------------------------------------------------
(* Claims about the key normalization of the differ (SpecKeyed) *)

Trimmed(v) == str_strip(astype_string(v))
Blank(v) == isna(Trimmed(v)) \/ Trimmed(v) = Str(<< >>)

\* The scope ids a raw row carries in transmission mode: one per package
\* column, or the one of SCOPE_ID when the sheet has no package column.
ScopeSlots(df) ==
    IF _find_scope_package_cols(df) # << >>
    THEN SeqToSet(_find_scope_package_cols(df))
    ELSE {"SCOPE_ID"}

\* C23: in distribution mode _keyed keeps every row, a blank or null scope
\* id becomes COMP, and every row has a non-null key, the trimmed scope id
\* (or COMP), "|" and the trimmed FLOC.  In transmission mode exactly the rows
\* whose scope id is blank once trimmed are dropped and every remaining row
\* has a non-null key.
C23_KeyNormalization ==
    keyed_pc = "returned" =>
        LET raw == keyed_in.df_raw.rows
            out == keyed_out.rows
        IN  IF keyed_in.dataset = "scope_release_distribution"
            THEN /\ Len(out) = Len(raw)
                 /\ \A i \in 1..Len(raw) :
                        /\ Blank(raw[i]["SCOPE_ID"]) => out[i]["_scope_id"] = Str(COMP)
                        /\ ~Blank(raw[i]["SCOPE_ID"])
                               => out[i]["_scope_id"] = Trimmed(raw[i]["SCOPE_ID"])
                        /\ ~isna(out[i]["_key"])
                        /\ out[i]["_key"].s
                               = out[i]["_scope_id"].s \o PIPE \o Trimmed(raw[i]["FLOC"]).s
            ELSE /\ Len(out) = Cardinality({<<i, c>> \in (1..Len(raw)) \X ScopeSlots(keyed_in.df_raw) :
                                               ~Blank(raw[i][c])})
                 /\ \A j \in 1..Len(out) :
                        /\ ~Blank(out[j]["_scope_id"])
                        /\ ~isna(out[j]["_key"])


\* C26: in transmission mode the delta key tells the package slots apart:
\* two keyed rows of one location and one scope id that come from different
\* "Scope Package #N" columns have different keys, so a sheet that lists
\* every location once yields no repeated key.
C26_TransmissionKeyHasVisitNo ==
    (keyed_pc = "returned" /\ keyed_in.dataset = "scope_release_transmission") =>
        LET raw == keyed_in.df_raw.rows
            out == keyed_out.rows
        IN  /\ \A j, k \in 1..Len(out) :
                   (/\ ~isna(out[j]["_floc"])
                    /\ out[j]["_floc"] = out[k]["_floc"]
                    /\ out[j]["_scope_id"] = out[k]["_scope_id"]
                    /\ out[j]["_visit_no"] # out[k]["_visit_no"])
                   => out[j]["_key"] # out[k]["_key"]
            /\ (\A i, j \in 1..Len(raw) :
                   /\ ~isna(raw[i]["FLOC"])
                   /\ i # j => raw[i]["FLOC"] # raw[j]["FLOC"])
               => ~has_duplicate_keys(keyed_out)


-----------------------------------------------------------------------------
(* Claims about successive runs of the intake (SpecRuns) *)

\* The run that ended last, when the state is the one it left behind.
LastRun == runs[Len(runs)]
RunEnded == runs # << >> /\ LastRun.status # "RUNNING"

\* C22: when a run has failed, bronze HISTORY, bronze CURRENT and the delta
\* HISTORY of the dataset are what they were before the run started.
C22_FailedRunLeavesNothing ==
    (RunEnded /\ LastRun.status = "FAILED") =>
        /\ fs = LastRun.history_before
        /\ bronze_current = LastRun.current_before
        /\ delta_files = LastRun.delta_before

\* The snapshot directories of the runs other than run k that were in the
\* tree when run k started, and the ones written last among them.
SnapshotsOfOthers(k) == runs[k].history_before
LatestOfOthers(k) ==
    {e.dir : e \in {x \in SnapshotsOfOthers(k) :
                       \A y \in SnapshotsOfOthers(k) : y.mtime <= x.mtime}}

\* C25: the previous snapshot of every completed run is the one written
\* last among the snapshots of all other runs in bronze HISTORY, and none
\* when there is no other snapshot, whatever the run ids are.
C25_PreviousIsLatestOfOthers ==
    \A k \in 1..Len(runs) :
        runs[k].status = "SUCCESS" =>
            /\ runs[k].prev_dir # current_history_dir(runs[k].partitions)
            /\ IF SnapshotsOfOthers(k) = {} THEN runs[k].prev_dir = NoDir
               ELSE runs[k].prev_dir \in LatestOfOthers(k)

\* The snapshots with unique keys that run k can rely on: the one the tree
\* held at the start and those of the earlier runs that succeeded.
Validated(k) ==
    {e \in runs[k].history_before :
        /\ ~has_duplicate_keys(_distribution_keyed(e.df))
        /\ \/ e \in runs[1].history_before
           \/ \E j \in 1..(k - 1) :
                 /\ runs[j].status = "SUCCESS"
                 /\ e.dir = current_history_dir(runs[j].partitions)}

FailedValidation(j) ==
    /\ runs[j].status = "FAILED"
    /\ has_duplicate_keys(_distribution_keyed(runs[j].df))

\* C29: after a run whose snapshot failed the unique-key validation, no
\* later run has the failed snapshot as its previous one, and the next run,
\* when its own snapshot has unique keys, succeeds with a diff against the
\* snapshot written last among those that passed the validation.
C29_FailedSnapshotIsNeverPrevious ==
    \A j \in 1..Len(runs) :
        FailedValidation(j) =>
            /\ \A k \in (j + 1)..Len(runs) :
                   runs[k].prev_dir # current_history_dir(runs[j].partitions)
            /\ (/\ j + 1 <= Len(runs)
                /\ runs[j + 1].status # "RUNNING"
                /\ ~has_duplicate_keys(_distribution_keyed(runs[j + 1].df)))
               => /\ runs[j + 1].status = "SUCCESS"
                  /\ \E e \in Validated(j + 1) :
                         /\ e.dir = runs[j + 1].prev_dir
                         /\ \A x \in Validated(j + 1) : x.mtime <= e.mtime
=============================================================================
